---- MODULE Spec2Model ----
(***************************************************************************)
(* Verification model of osm_lcm/lcm.py (class Lcm): the bus dispatch      *)
(* loop kafka_read, the task registry and cancel_tasks, the liveness       *)
(* prober kafka_ping, and the VIM/SDN/NS workflows.                        *)
(*                                                                         *)
(* Every coroutine is cut at its awaits: one action is the code that runs  *)
(* between two suspension points of the asyncio loop.                      *)
(***************************************************************************)
EXTENDS Integers, Sequences, FiniteSets, TLC

\* ------------------------------------------------------------------------
\* Bounds of the model
\* ------------------------------------------------------------------------
\* bus records the dispatch loop consumes in one run (order_id starts at 1)
MaxRecords == 3
\* self-pings the bus holds unconsumed
MaxInFlight == 1

\* ------------------------------------------------------------------------
\* Program constants
\* ------------------------------------------------------------------------
PingLimit == 10
SteadyErrors == 8
StartupErrors == 30
LoopErrorCap == 10
WaitWarmup == 5
WaitSteady == 120

\* ------------------------------------------------------------------------
\* Generic helpers for Python dicts
\* ------------------------------------------------------------------------
EmptyMap == [x \in {} |-> 0]

Put(f, k, v) == [x \in (DOMAIN f) \cup {k} |-> IF x = k THEN v ELSE f[x]]

Has(f, k) == k \in DOMAIN f

\* ------------------------------------------------------------------------
\* State of the dispatch loop, the registry and the prober
\* ------------------------------------------------------------------------
VARIABLES
    lcm_ns_tasks,        \* nsr_id -> nslcmop_id -> task name -> task handle
    lcm_vim_tasks,       \* vim_id -> order_id -> task name -> task handle
    lcm_sdn_tasks,       \* sdn_id -> order_id -> task name -> task handle
    tasks,               \* task handles: sequence of [topic, ent, name, cancelReq, done]
    pings_not_received,  \* self.pings_not_received
    order_id,            \* kafka_read: order_id
    rd_errors,           \* kafka_read: consecutive_errors
    rd_first,            \* kafka_read: first_start
    rd_pc,               \* kafka_read: "read" | "sleep" | "exit" | "raised"
    pg_errors,           \* kafka_ping: consecutive_errors
    pg_first,            \* kafka_ping: first_start
    pg_received,         \* kafka_ping: kafka_has_received
    pg_wait,             \* kafka_ping: wait_time of the running sleep
    pg_pc,               \* kafka_ping: "write" | "wrote" | "sleep" | "errsleep" |
                         \*   "raised" (too many bus errors) | "broken" (no pings received)
    bus_pings,           \* self-pings published and not yet consumed
    proc                 \* "running" | "dead": run_until_complete(gather(...)) has raised

dispVars == <<lcm_ns_tasks, lcm_vim_tasks, lcm_sdn_tasks, tasks, pings_not_received,
              order_id, rd_errors, rd_first, rd_pc,
              pg_errors, pg_first, pg_received, pg_wait, pg_pc, bus_pings, proc>>

\* ------------------------------------------------------------------------
\* State of the VIM/SDN workflows: the two DB documents, RO, and the workflow
\* that is running (its locals)
\* ------------------------------------------------------------------------
VARIABLES
    db_vim_accounts,     \* the vim_accounts document of the VIM
    db_sdns,             \* the sdns document of the SDN controller
    ro_vim,              \* uuids of the vims RO holds
    ro_att,              \* uuids of the vims attached to the RO tenant
    ro_sdn,              \* uuids of the sdn controllers RO holds
    ro_count,            \* uuids RO has handed out
    v_kind,              \* the workflow: "none" | "vim_create" | ... | "sdn_delete"
    v_pc,                \* "idle" | the await it is suspended at | "done"
    v_step,              \* local step
    v_doc,               \* local db_vim / db_sdn (NotLoaded is None)
    v_exc,               \* local exc
    v_in,                \* vim_content / sdn_content
    v_called,            \* the RO calls the workflow has made
    v_ret                \* how the task ended: "none" | "returned" | "raised"

vimVars == <<db_vim_accounts, db_sdns, ro_vim, ro_att, ro_sdn, ro_count,
             v_kind, v_pc, v_step, v_doc, v_exc, v_in, v_called, v_ret>>

\* ------------------------------------------------------------------------
\* State of the NS workflows: the documents of one network service, RO's
\* catalogue, the ns record the bus holds, and the workflow that is running
\* ------------------------------------------------------------------------
VARIABLES
    db_nsrs,             \* the nsrs document of the NS
    db_nslcmops,         \* nslcmop_id -> nslcmops document
    db_vnfrs,            \* member-vnf-index -> vnfrs document
    ro_vnfd,             \* uuid -> osm_id of the vnfds RO holds
    ro_nsd,              \* uuids of the nsds RO holds
    ro_ns,               \* uuid -> status of the ns instances RO holds
    ro_uuid,             \* uuids RO has handed out for them
    ro_stuck,            \* RO never finishes a deployment: it reports BUILD for ever
    bus_ns,              \* the ns record the NBI has published: "none" or a record
    wf,                  \* the locals of the running ns_instantiate / ns_terminate
    cb,                  \* db_nsr and db_nslcmop as the callbacks of the charm tasks hold them
    cb_out               \* how the last call of n2vc_callback ended: [ret, caught]

nsVars == <<db_nsrs, db_nslcmops, db_vnfrs, ro_vnfd, ro_nsd, ro_ns, ro_uuid, ro_stuck,
            bus_ns, wf, cb, cb_out>>

vars == <<dispVars, vimVars, nsVars>>

\* what an action of the dispatch loop or the prober leaves alone
DispOnly == UNCHANGED <<vimVars, nsVars>>

\* what an action of a VIM/SDN workflow leaves alone
VimOnly == UNCHANGED <<dispVars, nsVars>>

\* what an action of an NS workflow leaves alone: it registers its charm tasks in
\* lcm_ns_tasks and reads the vim_accounts document
NsOnly ==
    UNCHANGED <<lcm_vim_tasks, lcm_sdn_tasks, pings_not_received, rd_errors, rd_first,
                rd_pc, pg_errors, pg_first, pg_received, pg_wait, pg_pc, bus_pings, proc,
                db_sdns, ro_vim, ro_att, ro_sdn, ro_count,
                v_kind, v_pc, v_step, v_doc, v_exc, v_in, v_called, v_ret>>

\* ------------------------------------------------------------------------
\* Bus records
\* ------------------------------------------------------------------------
NsIds == {"n1", "n2"}
OpIds == {"op1", "op2"}
VimIds == {"v1", "v2"}
SdnIds == {"s1"}

Rec(t, c, i, o, to, fr) ==
    [topic |-> t, command |-> c, id |-> i, op |-> o, to |-> to, from |-> fr]

AdminRecords ==
    {Rec("admin", "ping", "none", "none", to, fr) : to \in {"lcm", "nbi"}, fr \in {"lcm", "nbi"}}
    \cup {Rec("admin", c, "none", "none", "none", "none") : c \in {"exit", "echo", "test", "#c"}}

NsRecords ==
    {Rec("ns", c, i, o, "none", "none") :
        c \in {"instantiate", "terminate", "action", "show", "deleted"},
        i \in NsIds, o \in OpIds}

VimRecords ==
    {Rec("vim_account", c, i, "none", "none", "none") :
        c \in {"create", "delete", "edit", "show"}, i \in VimIds}

SdnRecords ==
    {Rec("sdn", c, i, "none", "none", "none") :
        c \in {"create", "delete", "edit"}, i \in SdnIds}

ExternalRecords == AdminRecords \cup NsRecords \cup VimRecords \cup SdnRecords

\* the bus holds no ns record
NoRecord == Rec("none", "none", "none", "none", "none", "none")

SelfPing == Rec("admin", "ping", "none", "none", "lcm", "lcm")

\* ------------------------------------------------------------------------
\* Task handles
\* ------------------------------------------------------------------------
NewTask(topic, ent, name) ==
    [topic |-> topic, ent |-> ent, name |-> name, cancelReq |-> FALSE, done |-> FALSE]

\* handles held under one entity of a registry: all (order, name, handle) triples
HandlesOf(reg, id) ==
    IF Has(reg, id)
    THEN UNION {{reg[id][k][n] : n \in DOMAIN reg[id][k]} : k \in DOMAIN reg[id]}
    ELSE {}

\* ------------------------------------------------------------------------
\* cancel_tasks
\* ------------------------------------------------------------------------
\* task.cancel() on every handle under the entity
CancelHandles_NoCancel(tk, reg, id) == tk

CancelHandles_Topic(tk, reg, id) ==
    [t \in DOMAIN tk |->
        IF \E e \in DOMAIN reg : t \in HandlesOf(reg, e)
        THEN [tk[t] EXCEPT !.cancelReq = TRUE] ELSE tk[t]]

CancelHandles(tk, reg, id) ==
    [t \in DOMAIN tk |->
        IF t \in HandlesOf(reg, id) THEN [tk[t] EXCEPT !.cancelReq = TRUE] ELSE tk[t]]

\* lcm_tasks[_id] = {} (skipped when the entity has no entry or an empty one)
CancelRegistry_Keep(reg, id) == reg

CancelRegistry(reg, id) ==
    IF Has(reg, id) /\ DOMAIN reg[id] # {} THEN [reg EXCEPT ![id] = EmptyMap] ELSE reg

\* registry[id][key] = {name: task}, creating registry[id] when absent
Register_Fresh(reg, id, key, name, handle) ==
    Put(reg, id, Put(EmptyMap, key, Put(EmptyMap, name, handle)))

Register(reg, id, key, name, handle) ==
    LET slot == IF Has(reg, id) THEN reg[id] ELSE EmptyMap
    IN Put(reg, id, Put(slot, key, Put(EmptyMap, name, handle)))

\* ------------------------------------------------------------------------
\* kafka_read: the dispatch loop
\* ------------------------------------------------------------------------
\* "if consecutive_errors == 8 if not first_start else 30:" Python reads it as
\* (consecutive_errors == 8) if (not first_start) else 30, and 30 is truthy
GiveUp(errors, first) ==
    IF ~first THEN errors = SteadyErrors ELSE StartupErrors # 0

IsCancelling(rec) ==
    \/ rec.topic = "ns" /\ rec.command = "terminate"
    \/ rec.topic \in {"vim_account", "sdn"} /\ rec.command = "delete"

IsSpawning(rec) ==
    \/ rec.topic = "ns" /\ rec.command \in {"instantiate", "terminate", "action"}
    \/ rec.topic \in {"vim_account", "sdn"} /\ rec.command \in {"create", "delete", "edit"}

\* commands handled before the topic is looked at
IsEarly(rec) ==
    rec.command \in {"exit", "echo", "test"} \/ rec.command = "#c"

WorkflowName(rec) ==
    IF rec.topic = "ns" THEN "ns_" \o rec.command
    ELSE IF rec.topic = "vim_account" THEN "vim_" \o rec.command
    ELSE "sdn_" \o rec.command

\* the registry key of a spawn: nslcmop_id for ns, order_id for vim_account and sdn
SlotKey(rec, ord) == IF rec.topic = "ns" THEN rec.op ELSE ord

\* one registry after the handler of rec has run
RegistryAfter(reg, topic, rec, ord, handle) ==
    IF rec.topic # topic \/ IsEarly(rec) \/ ~IsSpawning(rec) THEN reg
    ELSE Register(IF IsCancelling(rec) THEN CancelRegistry(reg, rec.id) ELSE reg,
                  rec.id, SlotKey(rec, ord), WorkflowName(rec), handle)

RegistryOf(topic) ==
    IF topic = "ns" THEN lcm_ns_tasks
    ELSE IF topic = "vim_account" THEN lcm_vim_tasks
    ELSE lcm_sdn_tasks

\* the handles after the handler of rec has run: cancel_tasks first, then the spawn
TasksAfter(tk, rec) ==
    IF IsEarly(rec) \/ ~IsSpawning(rec) THEN tk
    ELSE Append(IF IsCancelling(rec) THEN CancelHandles(tk, RegistryOf(rec.topic), rec.id)
                ELSE tk,
                NewTask(rec.topic, rec.id, WorkflowName(rec)))

\* the self-ping test of the admin topic
IsSelfPing(rec) ==
    rec.topic = "admin" /\ rec.command = "ping" /\ rec.to = "lcm" /\ rec.from = "lcm"

PingsAfter_AnyPing(n, rec) ==
    IF ~IsEarly(rec) /\ rec.topic = "admin" /\ rec.command = "ping" THEN 0 ELSE n

PingsAfter(n, rec) ==
    IF ~IsEarly(rec) /\ IsSelfPing(rec) THEN 0 ELSE n

\* one pass of the loop body for a record that aioread returned
Handle(rec) ==
    /\ rd_errors' = 0
    /\ rd_first' = FALSE
    /\ order_id' = order_id + 1
    /\ rd_pc' = IF rec.command = "exit" THEN "exit" ELSE "read"
    /\ pings_not_received' = PingsAfter(pings_not_received, rec)
    /\ tasks' = TasksAfter(tasks, rec)
    /\ lcm_ns_tasks' = RegistryAfter(lcm_ns_tasks, "ns", rec, order_id', Len(tasks) + 1)
    /\ lcm_vim_tasks' = RegistryAfter(lcm_vim_tasks, "vim_account", rec, order_id',
                                      Len(tasks) + 1)
    /\ lcm_sdn_tasks' = RegistryAfter(lcm_sdn_tasks, "sdn", rec, order_id', Len(tasks) + 1)
    /\ UNCHANGED <<pg_errors, pg_first, pg_received, pg_wait, pg_pc, proc>>

CanRead == proc = "running" /\ rd_pc = "read" /\ order_id <= MaxRecords

\* aioread returns a record published by another component
ReadExternal(rec) ==
    /\ DispOnly
    /\ CanRead
    /\ Handle(rec)
    /\ UNCHANGED bus_pings

\* aioread returns a self-ping the prober published
ReadSelfPing ==
    /\ DispOnly
    /\ CanRead
    /\ bus_pings > 0
    /\ bus_pings' = bus_pings - 1
    /\ Handle(SelfPing)

\* aioread raises
ReadError ==
    /\ DispOnly
    /\ proc = "running" /\ rd_pc = "read"
    /\ IF GiveUp(rd_errors, rd_first)
       THEN /\ rd_pc' = "raised"
            /\ proc' = "dead"
            /\ UNCHANGED <<rd_errors>>
       ELSE /\ rd_pc' = "sleep"
            /\ rd_errors' = rd_errors + 1
            /\ UNCHANGED <<proc>>
    /\ UNCHANGED <<lcm_ns_tasks, lcm_vim_tasks, lcm_sdn_tasks, tasks, pings_not_received,
                   order_id, rd_first, pg_errors, pg_first, pg_received, pg_wait, pg_pc,
                   bus_pings>>

\* aioread returns a record whose params lack the key the handler reads
\* (params["_id"], nslcmop["nsInstanceId"], params["to"]): the handler raises after
\* consecutive_errors, first_start and order_id were updated
ReadMalformed ==
    /\ DispOnly
    /\ CanRead
    /\ order_id' = order_id + 1
    /\ rd_first' = FALSE
    /\ IF GiveUp(0, FALSE)
       THEN /\ rd_pc' = "raised"
            /\ proc' = "dead"
            /\ rd_errors' = 0
       ELSE /\ rd_pc' = "sleep"
            /\ rd_errors' = 1
            /\ UNCHANGED <<proc>>
    /\ UNCHANGED <<lcm_ns_tasks, lcm_vim_tasks, lcm_sdn_tasks, tasks, pings_not_received,
                   pg_errors, pg_first, pg_received, pg_wait, pg_pc, bus_pings>>

\* the back-off sleep of the except branch ends
ReadWake ==
    /\ DispOnly
    /\ proc = "running" /\ rd_pc = "sleep"
    /\ rd_pc' = IF rd_errors < LoopErrorCap THEN "read" ELSE "exit"
    /\ UNCHANGED <<lcm_ns_tasks, lcm_vim_tasks, lcm_sdn_tasks, tasks, pings_not_received,
                   order_id, rd_errors, rd_first, pg_errors, pg_first, pg_received,
                   pg_wait, pg_pc, bus_pings, proc>>

\* a spawned workflow runs to its end (the workflows themselves are modelled below)
TaskDone(t) ==
    /\ DispOnly
    /\ proc = "running"
    /\ t \in DOMAIN tasks
    /\ ~tasks[t].done
    /\ tasks' = [tasks EXCEPT ![t].done = TRUE]
    /\ UNCHANGED <<lcm_ns_tasks, lcm_vim_tasks, lcm_sdn_tasks, pings_not_received,
                   order_id, rd_errors, rd_first, rd_pc, pg_errors, pg_first, pg_received,
                   pg_wait, pg_pc, bus_pings, proc>>

\* ------------------------------------------------------------------------
\* kafka_ping: the liveness prober
\* ------------------------------------------------------------------------
Min(a, b) == IF a < b THEN a ELSE b

\* "if self.pings_not_received > 10: raise LcmException"
PingBroken_Off(n) == FALSE

PingBroken_Early(n) == n > 1

PingBroken(n) == n > PingLimit

\* "wait_time = 5 if not kafka_has_received else 120"
WaitTime(received) == IF ~received THEN WaitWarmup ELSE WaitSteady

\* aiowrite("admin", "ping", {"from": "lcm", "to": "lcm"}) hands the record to the bus
PingPublish ==
    /\ DispOnly
    /\ proc = "running" /\ pg_pc = "write"
    /\ bus_pings' = Min(bus_pings + 1, MaxInFlight)
    /\ pg_pc' = "wrote"
    /\ UNCHANGED <<lcm_ns_tasks, lcm_vim_tasks, lcm_sdn_tasks, tasks, pings_not_received,
                   order_id, rd_errors, rd_first, rd_pc, pg_errors, pg_first, pg_received,
                   pg_wait, proc>>

\* aiowrite has returned: the code up to "await asyncio.sleep(wait_time)"
PingCount ==
    /\ DispOnly
    /\ proc = "running" /\ pg_pc = "wrote"
    /\ pg_wait' = WaitTime(pg_received)
    /\ pg_received' = IF pings_not_received = 0 THEN TRUE ELSE pg_received
    /\ pings_not_received' = pings_not_received + 1
    /\ pg_pc' = "sleep"
    /\ UNCHANGED <<lcm_ns_tasks, lcm_vim_tasks, lcm_sdn_tasks, tasks, order_id, rd_errors,
                   rd_first, rd_pc, pg_errors, pg_first, bus_pings, proc>>

\* the sleep ends: the check of the counter, then the next iteration
PingWake ==
    /\ DispOnly
    /\ proc = "running" /\ pg_pc = "sleep"
    /\ IF PingBroken(pings_not_received)
       THEN /\ pg_pc' = "broken"
            /\ proc' = "dead"
            /\ UNCHANGED <<pg_errors, pg_first>>
       ELSE /\ pg_pc' = "write"
            /\ pg_errors' = 0
            /\ pg_first' = FALSE
            /\ UNCHANGED proc
    /\ UNCHANGED <<lcm_ns_tasks, lcm_vim_tasks, lcm_sdn_tasks, tasks, pings_not_received,
                   order_id, rd_errors, rd_first, rd_pc, pg_received, pg_wait, bus_pings>>

\* aiowrite raises: the except branch
PingError ==
    /\ DispOnly
    /\ proc = "running" /\ pg_pc = "write"
    /\ IF GiveUp(pg_errors, pg_first)
       THEN /\ pg_pc' = "raised"
            /\ proc' = "dead"
            /\ UNCHANGED <<pg_errors, pg_wait>>
       ELSE /\ pg_pc' = "errsleep"
            /\ pg_errors' = pg_errors + 1
            /\ pg_wait' = IF ~pg_first THEN 1 ELSE WaitWarmup
            /\ UNCHANGED proc
    /\ UNCHANGED <<lcm_ns_tasks, lcm_vim_tasks, lcm_sdn_tasks, tasks, pings_not_received,
                   order_id, rd_errors, rd_first, rd_pc, pg_first, pg_received, bus_pings>>

\* the back-off sleep of the except branch ends
PingRetry ==
    /\ DispOnly
    /\ proc = "running" /\ pg_pc = "errsleep"
    /\ pg_pc' = "write"
    /\ UNCHANGED <<lcm_ns_tasks, lcm_vim_tasks, lcm_sdn_tasks, tasks, pings_not_received,
                   order_id, rd_errors, rd_first, rd_pc, pg_errors, pg_first, pg_received,
                   pg_wait, bus_pings, proc>>

\* ------------------------------------------------------------------------
\* Documents of vim_accounts and sdns, exceptions, and RO's replies
\* ------------------------------------------------------------------------
\* uuids RO hands out in one run
MaxUuid == 2

\* db_vim["_admin"]["deployed"]["RO"] = None; RO's uuids are 1, 2, ...
NoUuid == 0

\* no document under that _id
Absent == [exists |-> FALSE]

\* db_vim = None / db_sdn = None
NotLoaded == [exists |-> FALSE, loaded |-> FALSE]

\* n2vc_callback has not been called
NoOut == [ret |-> "none", caught |-> "none"]

\* the document as the NBI stores it before it posts create: admin says whether
\* the key "_admin" is there
NewDoc(admin) ==
    [exists |-> TRUE, admin |-> admin, deployed |-> FALSE, RO |-> NoUuid,
     operationalState |-> IF admin THEN "PROCESSING" ELSE "unset", detailed |-> <<>>]

\* exc = None
NoExc == [type |-> "none", code |-> "none", msg |-> "none"]

DbExc(what) == [type |-> "DbException", code |-> "404", msg |-> what]

LcmExc(what) == [type |-> "LcmException", code |-> "none", msg |-> what]

UnboundExc(what) == [type |-> "UnboundLocalError", code |-> "none", msg |-> what]

\* what an RO call raises for the reply o: ROClientException with the HTTP code,
\* or any other exception of the HTTP client
ROExc(o, call) ==
    IF o = "other"
    THEN [type |-> "Exception", code |-> "none", msg |-> call]
    ELSE [type |-> "ROClientException", code |-> o, msg |-> call]

\* the replies RO can give to a call on an item it holds (found) or not
ROReplies(found) ==
    (IF found THEN {"ok"} ELSE {"404"}) \cup {"409", "500", "other"}

HasRO_Deployed(doc) == doc.admin /\ doc.deployed

\* db_x.get("_admin") and db_x["_admin"].get("deployed") and
\* db_x["_admin"]["deployed"].get("RO")
HasRO(doc) == doc.admin /\ doc.deployed /\ doc.RO # NoUuid

\* if "_admin" not in db_x ... db_x["_admin"]["deployed"]["RO"] = None
EnsureDeployed(doc) == [doc EXCEPT !.admin = TRUE, !.deployed = TRUE, !.RO = NoUuid]

\* db_x["_admin"]["deployed"]["RO"] = RO_x_id
SetRO(doc, uuid) == [doc EXCEPT !.RO = uuid]

SetState_Same(doc, state) == doc

\* db_x["_admin"]["operationalState"] = state
SetState(doc, state) == [doc EXCEPT !.operationalState = state]

\* the two assignments of the finally blocks
Failed(doc, step, exc) ==
    [doc EXCEPT !.operationalState = "ERROR", !.detailed = <<"ERROR", step, exc.msg>>]

\* update_db: db.replace, a DbException (no such document) is logged and dropped
UpdateDb(db, doc) == IF db.exists THEN doc ELSE db

\* the content of a create or edit command: the sdn-controller its config names
\* ("none" if it names none), and whether anything is left for RO.edit("vim")
\* and for RO.edit("vim_account") once the keys are popped
Contents == [sdn : {"none", "s1"}, vim : BOOLEAN, acct : BOOLEAN]

CreateContents == {c \in Contents : c.vim /\ c.acct}

NoContent == [sdn |-> "none", vim |-> FALSE, acct |-> FALSE]

\* the except clauses and the finally block of the six workflows: the task ends
VEnd(table, db, doc, step, exc) ==
    LET write == exc # NoExc /\ doc # NotLoaded
        keyError == write /\ ~doc.admin
        final == IF write /\ ~keyError THEN Failed(doc, step, exc) ELSE doc
        after == IF write /\ ~keyError THEN UpdateDb(db, final) ELSE db
    IN  /\ v_pc' = "done"
        /\ v_step' = step
        /\ v_exc' = exc
        /\ v_doc' = final
        /\ v_ret' = IF keyError THEN "raised" ELSE "returned"
        /\ IF table = "vim_accounts"
           THEN db_vim_accounts' = after /\ UNCHANGED db_sdns
           ELSE db_sdns' = after /\ UNCHANGED db_vim_accounts

\* the workflow goes on to its next await
VGoOn(pc, doc, step) ==
    /\ v_pc' = pc
    /\ v_doc' = doc
    /\ v_step' = step
    /\ v_exc' = NoExc
    /\ v_ret' = "none"

VIdle == v_pc \in {"idle", "done"}

VEnter(kind, content) ==
    /\ VIdle
    /\ v_kind' = kind
    /\ v_in' = content
    /\ v_called' = {}

VCalled(call) ==
    /\ v_called' = v_called \cup {call}
    /\ UNCHANGED <<v_kind, v_in>>

ROSame == UNCHANGED <<ro_vim, ro_att, ro_sdn, ro_count>>

\* ------------------------------------------------------------------------
\* The NBI and RO's operator
\* ------------------------------------------------------------------------
\* the NBI stores a new vim_accounts document
nbi_new_vim(admin) ==
    /\ VimOnly
    /\ VIdle
    /\ ~db_vim_accounts.exists
    /\ db_vim_accounts' = NewDoc(admin)
    /\ UNCHANGED <<db_sdns, ro_vim, ro_att, ro_sdn, ro_count,
                   v_kind, v_pc, v_step, v_doc, v_exc, v_in, v_called, v_ret>>

\* the NBI stores a new sdns document
nbi_new_sdn(admin) ==
    /\ VimOnly
    /\ VIdle
    /\ ~db_sdns.exists
    /\ db_sdns' = NewDoc(admin)
    /\ UNCHANGED <<db_vim_accounts, ro_vim, ro_att, ro_sdn, ro_count,
                   v_kind, v_pc, v_step, v_doc, v_exc, v_in, v_called, v_ret>>

\* somebody else removes an item at RO: the next call on it answers 404
ro_forgets(u) ==
    /\ VimOnly
    /\ u \in ro_vim \cup ro_sdn
    /\ ro_vim' = ro_vim \ {u}
    /\ ro_att' = ro_att \ {u}
    /\ ro_sdn' = ro_sdn \ {u}
    /\ UNCHANGED <<db_vim_accounts, db_sdns, ro_count,
                   v_kind, v_pc, v_step, v_doc, v_exc, v_in, v_called, v_ret>>

\* ------------------------------------------------------------------------
\* vim_create
\* ------------------------------------------------------------------------
SdnLookup_Ignore(content) == NoExc

\* the look-up of the sdn-controller the content names: the exception it raises
SdnLookup(content) ==
    IF content.sdn = "none" THEN NoExc
    ELSE IF ~db_sdns.exists THEN DbExc("sdns")
    ELSE IF ~HasRO(db_sdns) THEN LcmExc("sdn-controller is not available")
    ELSE NoExc

\* from the entry to await RO.create("vim")
vim_create_1(content) ==
    /\ VimOnly
    /\ VEnter("vim_create", content)
    /\ ro_count < MaxUuid
    /\ ROSame
    /\ IF ~db_vim_accounts.exists
       THEN VEnd("vim_accounts", db_vim_accounts, NotLoaded,
                 "Getting vim-id from db", DbExc("vim_accounts"))
       ELSE LET doc == EnsureDeployed(db_vim_accounts) IN
            IF SdnLookup(content) # NoExc
            THEN VEnd("vim_accounts", db_vim_accounts, doc,
                      "Getting sdn-controller-id from db", SdnLookup(content))
            ELSE /\ VGoOn("RO.create", doc, "Creating vim at RO")
                 /\ UNCHANGED <<db_vim_accounts, db_sdns>>

\* RO.create("vim") answers; to await RO.attach_datacenter
vim_create_2 ==
    /\ VimOnly
    /\ v_kind = "vim_create" /\ v_pc = "RO.create"
    /\ VCalled("create vim")
    /\ \E o \in ROReplies(TRUE) :
         IF o = "ok"
         THEN LET RO_vim_id == ro_count + 1
                  doc == SetRO(v_doc, RO_vim_id)
              IN  /\ ro_count' = RO_vim_id
                  /\ ro_vim' = ro_vim \cup {RO_vim_id}
                  /\ UNCHANGED <<ro_att, ro_sdn>>
                  /\ db_vim_accounts' = UpdateDb(db_vim_accounts, doc)
                  /\ UNCHANGED db_sdns
                  /\ VGoOn("RO.attach_datacenter", doc, "Creating vim_account at RO")
         ELSE /\ ROSame
              /\ VEnd("vim_accounts", db_vim_accounts, v_doc, v_step, ROExc(o, "create vim"))

\* RO.attach_datacenter answers; to the end
vim_create_3 ==
    /\ VimOnly
    /\ v_kind = "vim_create" /\ v_pc = "RO.attach_datacenter"
    /\ VCalled("attach_datacenter")
    /\ UNCHANGED <<ro_vim, ro_sdn, ro_count>>
    /\ \E o \in ROReplies(v_doc.RO \in ro_vim) :
         IF o = "ok"
         THEN LET doc == SetState(v_doc, "ENABLED") IN
              /\ ro_att' = ro_att \cup {v_doc.RO}
              /\ VEnd("vim_accounts", UpdateDb(db_vim_accounts, doc), doc, v_step, NoExc)
         ELSE /\ UNCHANGED ro_att
              /\ VEnd("vim_accounts", db_vim_accounts, v_doc, v_step,
                      ROExc(o, "attach_datacenter"))

\* ------------------------------------------------------------------------
\* vim_edit
\* ------------------------------------------------------------------------
\* from "Editing vim-account at RO tenant" to await RO.edit("vim_account"), or
\* to the end when nothing is left to edit
vim_edit_account(doc, content) ==
    IF content.acct
    THEN /\ VGoOn("RO.edit vim_account", doc, "Editing vim-account at RO tenant")
         /\ UNCHANGED <<db_vim_accounts, db_sdns>>
    ELSE LET enabled == SetState(doc, "ENABLED") IN
         VEnd("vim_accounts", UpdateDb(db_vim_accounts, enabled), enabled,
              "Editing vim-account at RO tenant", NoExc)

\* from the entry to await RO.edit("vim")
vim_edit_1(content) ==
    /\ VimOnly
    /\ VEnter("vim_edit", content)
    /\ ROSame
    /\ IF ~db_vim_accounts.exists
       THEN VEnd("vim_accounts", db_vim_accounts, NotLoaded,
                 "Getting vim-id from db", DbExc("vim_accounts"))
       ELSE IF ~HasRO(db_vim_accounts)
       THEN \* line 292 reads RO_vim_id, which was never assigned
            VEnd("vim_accounts", db_vim_accounts, db_vim_accounts,
                 "Getting vim-id from db", UnboundExc("RO_vim_id"))
       ELSE IF SdnLookup(content) # NoExc
       THEN VEnd("vim_accounts", db_vim_accounts, db_vim_accounts,
                 "Getting sdn-controller-id from db", SdnLookup(content))
       ELSE IF content.vim
       THEN /\ VGoOn("RO.edit vim", db_vim_accounts, "Editing vim at RO")
            /\ UNCHANGED <<db_vim_accounts, db_sdns>>
       ELSE vim_edit_account(db_vim_accounts, content)

\* RO.edit("vim") answers
vim_edit_2 ==
    /\ VimOnly
    /\ v_kind = "vim_edit" /\ v_pc = "RO.edit vim"
    /\ VCalled("edit vim")
    /\ ROSame
    /\ \E o \in ROReplies(v_doc.RO \in ro_vim) :
         IF o = "ok"
         THEN vim_edit_account(v_doc, v_in)
         ELSE VEnd("vim_accounts", db_vim_accounts, v_doc, v_step, ROExc(o, "edit vim"))

\* RO.edit("vim_account") answers
vim_edit_3 ==
    /\ VimOnly
    /\ v_kind = "vim_edit" /\ v_pc = "RO.edit vim_account"
    /\ VCalled("edit vim_account")
    /\ ROSame
    /\ \E o \in ROReplies(v_doc.RO \in ro_att) :
         IF o = "ok"
         THEN LET enabled == SetState(v_doc, "ENABLED") IN
              VEnd("vim_accounts", UpdateDb(db_vim_accounts, enabled), enabled, v_step, NoExc)
         ELSE VEnd("vim_accounts", db_vim_accounts, v_doc, v_step,
                   ROExc(o, "edit vim_account"))

\* ------------------------------------------------------------------------
\* vim_delete
\* ------------------------------------------------------------------------
Swallows_AnyCode(exc) == exc.type = "ROClientException"

\* except ROClientException as e: if e.http_code == 404: (log) else: raise
Swallows(exc) == exc.type = "ROClientException" /\ exc.code = "404"

\* db.del_one and the return: the task ends
VDelOne(table, db, doc, step) ==
    IF db.exists
    THEN VEnd(table, Absent, doc, step, NoExc)
    ELSE VEnd(table, db, doc, step, DbExc(table))

\* from the entry to await RO.detach_datacenter
vim_delete_1 ==
    /\ VimOnly
    /\ VEnter("vim_delete", NoContent)
    /\ ROSame
    /\ IF ~db_vim_accounts.exists
       THEN VEnd("vim_accounts", db_vim_accounts, NotLoaded,
                 "Getting vim from db", DbExc("vim_accounts"))
       ELSE IF HasRO(db_vim_accounts)
       THEN /\ VGoOn("RO.detach_datacenter", db_vim_accounts, "Detaching vim from RO tenant")
            /\ UNCHANGED <<db_vim_accounts, db_sdns>>
       ELSE VDelOne("vim_accounts", db_vim_accounts, db_vim_accounts, "Getting vim from db")

\* RO.detach_datacenter answers; to await RO.delete("vim")
vim_delete_2 ==
    /\ VimOnly
    /\ v_kind = "vim_delete" /\ v_pc = "RO.detach_datacenter"
    /\ VCalled("detach_datacenter")
    /\ UNCHANGED <<ro_vim, ro_sdn, ro_count>>
    /\ \E o \in ROReplies(v_doc.RO \in ro_att) :
         /\ ro_att' = IF o = "ok" THEN ro_att \ {v_doc.RO} ELSE ro_att
         /\ IF o = "ok" \/ Swallows(ROExc(o, "detach_datacenter"))
            THEN /\ VGoOn("RO.delete", v_doc, "Deleting vim from RO")
                 /\ UNCHANGED <<db_vim_accounts, db_sdns>>
            ELSE VEnd("vim_accounts", db_vim_accounts, v_doc, v_step,
                      ROExc(o, "detach_datacenter"))

\* RO.delete("vim") answers; to the end
vim_delete_3 ==
    /\ VimOnly
    /\ v_kind = "vim_delete" /\ v_pc = "RO.delete"
    /\ VCalled("delete vim")
    /\ UNCHANGED <<ro_sdn, ro_count>>
    /\ \E o \in ROReplies(v_doc.RO \in ro_vim) :
         /\ ro_vim' = IF o = "ok" THEN ro_vim \ {v_doc.RO} ELSE ro_vim
         /\ ro_att' = IF o = "ok" THEN ro_att \ {v_doc.RO} ELSE ro_att
         /\ IF o = "ok" \/ Swallows(ROExc(o, "delete vim"))
            THEN VDelOne("vim_accounts", db_vim_accounts, v_doc, v_step)
            ELSE VEnd("vim_accounts", db_vim_accounts, v_doc, v_step, ROExc(o, "delete vim"))

\* ------------------------------------------------------------------------
\* sdn_create, sdn_edit, sdn_delete
\* ------------------------------------------------------------------------
\* from the entry to await RO.create("sdn")
sdn_create_1 ==
    /\ VimOnly
    /\ VEnter("sdn_create", NoContent)
    /\ ro_count < MaxUuid
    /\ ROSame
    /\ IF ~db_sdns.exists
       THEN VEnd("sdns", db_sdns, NotLoaded, "Getting sdn from db", DbExc("sdns"))
       ELSE /\ VGoOn("RO.create", EnsureDeployed(db_sdns), "Creating sdn at RO")
            /\ UNCHANGED <<db_vim_accounts, db_sdns>>

\* RO.create("sdn") answers; to the end
sdn_create_2 ==
    /\ VimOnly
    /\ v_kind = "sdn_create" /\ v_pc = "RO.create"
    /\ VCalled("create sdn")
    /\ UNCHANGED <<ro_vim, ro_att>>
    /\ \E o \in ROReplies(TRUE) :
         IF o = "ok"
         THEN LET RO_sdn_id == ro_count + 1
                  doc == SetState(SetRO(v_doc, RO_sdn_id), "ENABLED")
              IN  /\ ro_count' = RO_sdn_id
                  /\ ro_sdn' = ro_sdn \cup {RO_sdn_id}
                  /\ VEnd("sdns", UpdateDb(db_sdns, doc), doc, v_step, NoExc)
         ELSE /\ UNCHANGED <<ro_sdn, ro_count>>
              /\ VEnd("sdns", db_sdns, v_doc, v_step, ROExc(o, "create sdn"))

\* from the entry to await RO.edit("sdn"); content.vim says whether anything is
\* left in sdn_RO once the keys are popped
sdn_edit_1(content) ==
    /\ VimOnly
    /\ VEnter("sdn_edit", content)
    /\ ROSame
    /\ IF ~db_sdns.exists
       THEN VEnd("sdns", db_sdns, NotLoaded, "Getting sdn from db", DbExc("sdns"))
       ELSE IF ~HasRO(db_sdns)
       THEN \* line 421 reads RO_sdn_id, which was never assigned
            VEnd("sdns", db_sdns, db_sdns, "Getting sdn from db", UnboundExc("RO_sdn_id"))
       ELSE IF content.vim
       THEN /\ VGoOn("RO.edit sdn", db_sdns, "Editing sdn at RO")
            /\ UNCHANGED <<db_vim_accounts, db_sdns>>
       ELSE LET enabled == SetState(db_sdns, "ENABLED") IN
            VEnd("sdns", UpdateDb(db_sdns, enabled), enabled, "Editing sdn at RO", NoExc)

\* RO.edit("sdn") answers; to the end
sdn_edit_2 ==
    /\ VimOnly
    /\ v_kind = "sdn_edit" /\ v_pc = "RO.edit sdn"
    /\ VCalled("edit sdn")
    /\ ROSame
    /\ \E o \in ROReplies(v_doc.RO \in ro_sdn) :
         IF o = "ok"
         THEN LET enabled == SetState(v_doc, "ENABLED") IN
              VEnd("sdns", UpdateDb(db_sdns, enabled), enabled, v_step, NoExc)
         ELSE VEnd("sdns", db_sdns, v_doc, v_step, ROExc(o, "edit sdn"))

\* from the entry to await RO.delete("sdn")
sdn_delete_1 ==
    /\ VimOnly
    /\ VEnter("sdn_delete", NoContent)
    /\ ROSame
    /\ IF ~db_sdns.exists
       THEN VEnd("sdns", db_sdns, NotLoaded, "Getting sdn from db", DbExc("sdns"))
       ELSE IF HasRO(db_sdns)
       THEN /\ VGoOn("RO.delete", db_sdns, "Deleting sdn from RO")
            /\ UNCHANGED <<db_vim_accounts, db_sdns>>
       ELSE VDelOne("sdns", db_sdns, db_sdns, "Getting sdn from db")

\* RO.delete("sdn") answers; to the end
sdn_delete_2 ==
    /\ VimOnly
    /\ v_kind = "sdn_delete" /\ v_pc = "RO.delete"
    /\ VCalled("delete sdn")
    /\ UNCHANGED <<ro_vim, ro_att, ro_count>>
    /\ \E o \in ROReplies(v_doc.RO \in ro_sdn) :
         /\ ro_sdn' = IF o = "ok" THEN ro_sdn \ {v_doc.RO} ELSE ro_sdn
         /\ IF o = "ok" \/ Swallows(ROExc(o, "delete sdn"))
            THEN VDelOne("sdns", db_sdns, v_doc, v_step)
            ELSE VEnd("sdns", db_sdns, v_doc, v_step, ROExc(o, "delete sdn"))

\* ------------------------------------------------------------------------
\* Documents of nsrs, nslcmops and vnfrs; the descriptors
\* ------------------------------------------------------------------------
\* deployment_timeout = 2 * 3600, and the sleep of one poll
DeploymentTimeout == 7200

PollSleep == 5

NsdIds == {"nsd0", "nsd1", "nsd2"}

\* nsd["constituent-vnfd"]: member-vnf-index and vnfd-id-ref of each
Constituents(nsd) ==
    IF nsd = "nsd0" THEN << [idx |-> "1", vnfd |-> "A"] >>
    ELSE IF nsd = "nsd1" THEN << [idx |-> "1", vnfd |-> "B"], [idx |-> "2", vnfd |-> "A"] >>
    ELSE << [idx |-> "1", vnfd |-> "C"], [idx |-> "2", vnfd |-> "C"] >>

\* vnfd["vnf-configuration"]["juju"]["charm"] is set
VnfCharm(vnfd) == vnfd \in {"B", "C"}

\* vnfd["vdu"][0]["vdu-configuration"]["juju"]["charm"] is set (each vnfd has one vdu)
VduCharm(vnfd) == vnfd = "C"

Indexes(nsd) == {Constituents(nsd)[i].idx : i \in DOMAIN Constituents(nsd)}

\* needed_vnfd: the vnfd ids in the order the loop over constituent-vnfd first
\* meets them
RECURSIVE Needed(_, _)
Needed(cs, seen) ==
    IF cs = <<>> THEN <<>>
    ELSE IF Head(cs).vnfd \in seen THEN Needed(Tail(cs), seen)
    ELSE <<Head(cs).vnfd>> \o Needed(Tail(cs), seen \cup {Head(cs).vnfd})

NeededVnfd(nsd) == Needed(Constituents(nsd), {})

\* "_admin" has no "deployed"
NoDeployed == [present |-> FALSE]

\* nsr_lcm = db_nsr["_admin"]["deployed"] = {...}
NewDeployed ==
    [present |-> TRUE, vnfd_id |-> EmptyMap, nsd_id |-> NoUuid, nsr_id |-> NoUuid,
     nsr_status |-> "SCHEDULED", nsr_ip |-> {}, VCA |-> EmptyMap]

\* the nsrs document as the NBI stores it; params.vnf says whether
\* instantiate_params has a non-empty "vnf"
NewNsr(nsd, params) ==
    [exists |-> TRUE, nsd |-> nsd, params |-> params, nsState |-> "NOT_INSTANTIATED",
     operational |-> "init", config |-> "init", detailed |-> <<"scheduled">>,
     deployed |-> NoDeployed]

\* the vnfrs document as the NBI stores it: neither vim-account-id nor ip-address
NewVnfr == [vim |-> FALSE, ip |-> FALSE]

\* the nslcmops document as the NBI stores it
NewOp(type, autoremove) ==
    [type |-> type, operationState |-> "PROCESSING", detailed |-> <<"">>,
     autoremove |-> autoremove]

\* nslcmop_id of the n-th command
OpId(n) == "op" \o ToString(n)

\* db_nsr_update / db_nslcmop_update before their first assignment
Unbound == [bound |-> FALSE]

\* the locals of a workflow that has not started
NoWf ==
    [kind |-> "none", pc |-> "idle", op |-> "none", task |-> 0, step |-> "none",
     nsr |-> NotLoaded, lcmop |-> NotLoaded, vnfr |-> EmptyMap,
     todo |-> <<>>, cur |-> "none", RO_nsr_id |-> NoUuid, timeout |-> 0,
     nsr_lcm |-> NoDeployed, failed |-> <<>>, vca |-> EmptyMap,
     nsr_update |-> Unbound, nslcmop_update |-> Unbound,
     exc |-> NoExc, ret |-> "none", called |-> <<>>]

WfIdle == wf.pc \in {"idle", "done"}

FieldsOf(doc, upd) ==
    [f \in DOMAIN doc |-> IF f \in DOMAIN upd THEN upd[f] ELSE doc[f]]

\* update_db_2: db.set_one sets the fields of upd in the stored document; a
\* DbException (no such document) is logged and dropped
UpdateDb2(db, upd) == IF db.exists THEN FieldsOf(db, upd) ELSE db

\* update_db("nslcmops", ...) / update_db_2("nslcmops", ...) on the collection
UpdateOp(ops, id, doc) == IF Has(ops, id) THEN Put(ops, id, doc) ELSE ops

UpdateOp2(ops, id, upd) == IF Has(ops, id) THEN Put(ops, id, FieldsOf(ops[id], upd)) ELSE ops

\* update_db("vnfrs", ...) for the documents the workflow holds
UpdateVnfrs(db, held) ==
    [i \in DOMAIN db |-> IF Has(held, i) THEN held[i] ELSE db[i]]

\* ------------------------------------------------------------------------
\* The NBI and RO
\* ------------------------------------------------------------------------
\* uuids RO hands out for vnfds, nsds and ns instances in one run
MaxNsUuid == 4

\* the vim_accounts document vim_create leaves behind when it succeeds
EnabledVim == SetState(SetRO(EnsureDeployed(NewDoc(TRUE)), 1), "ENABLED")

\* ... and when RO.create("vim") fails
FailedVim ==
    Failed(EnsureDeployed(NewDoc(TRUE)), "Creating vim at RO", ROExc("500", "create vim"))

\* the NBI stores a new NS: its nsrs document and one vnfrs document per
\* constituent vnf; instantiate_params names the VIM account
nbi_new_ns(nsd, params, vim) ==
    /\ NsOnly
    /\ WfIdle
    /\ ~db_nsrs.exists
    /\ order_id = 1
    /\ db_nsrs' = NewNsr(nsd, params)
    /\ db_vnfrs' = [i \in Indexes(nsd) |-> NewVnfr]
    /\ db_vim_accounts' = vim
    /\ UNCHANGED <<db_nslcmops, ro_vnfd, ro_nsd, ro_ns, ro_uuid, ro_stuck, bus_ns, wf, cb, cb_out,
                   lcm_ns_tasks, tasks, order_id>>

\* the NBI stores an nslcmops document and publishes the command
nbi_command(command, autoremove) ==
    /\ NsOnly
    /\ WfIdle
    /\ bus_ns = NoRecord
    /\ db_nsrs.exists
    /\ order_id <= MaxRecords
    /\ db_nslcmops' = Put(db_nslcmops, OpId(order_id), NewOp(command, autoremove))
    /\ bus_ns' = Rec("ns", command, "n1", OpId(order_id), "none", "none")
    /\ UNCHANGED <<db_nsrs, db_vnfrs, db_vim_accounts, ro_vnfd, ro_nsd, ro_ns, ro_uuid,
                   ro_stuck, wf, cb, cb_out, lcm_ns_tasks, tasks, order_id>>

\* kafka_read consumes the ns record and spawns the workflow
ns_read ==
    /\ CanRead
    /\ bus_ns # NoRecord
    /\ Handle(bus_ns)
    /\ bus_ns' = NoRecord
    /\ wf' = [NoWf EXCEPT !.kind = WorkflowName(bus_ns), !.pc = "start",
                          !.op = bus_ns.op, !.task = Len(tasks) + 1]
    /\ UNCHANGED <<db_nsrs, db_nslcmops, db_vnfrs, ro_vnfd, ro_nsd, ro_ns, ro_uuid,
                   ro_stuck, cb, cb_out, bus_pings, vimVars>>

Without(f, k) == [x \in (DOMAIN f) \ {k} |-> f[x]]

\* RO's replies to a call of an NS workflow on an item: "404" when somebody else
\* has removed the item, which may have happened just before the call
NsReplies(found, errors) == (IF found THEN {"ok"} ELSE {}) \cup {"404"} \cup errors

\* polls of one run that an RO that is not stuck answers with BUILD, or with
\* addresses that are not ready
MaxPolls == 2

\* the poll loop may be told to wait once more
MayWait(w) == ro_stuck \/ DeploymentTimeout - w.timeout < MaxPolls * PollSleep

\* the status RO reports for an ns instance: its deployment may have moved on
\* since the last call
Reported(status, wait) ==
    IF status # "BUILD" THEN {status}
    ELSE IF ro_stuck THEN {"BUILD"}
    ELSE (IF wait THEN {"BUILD"} ELSE {}) \cup {"ACTIVE", "ERROR"}

\* ------------------------------------------------------------------------
\* ns_instantiate
\* ------------------------------------------------------------------------
\* the workflow issues a call to RO or to the VCA
\* (wf.called lists them in order, a call repeated in a row once)
Call(w, name) ==
    IF w.called # <<>> /\ w.called[Len(w.called)] = name THEN w
    ELSE [w EXCEPT !.called = Append(@, name)]

\* RO.create: RO refuses once it has handed out MaxNsUuid uuids. "lost": RO
\* serves the request and the await raises all the same (the reply does not
\* arrive, or the task is interrupted while it waits)
CreateReplies == IF ro_uuid < MaxNsUuid THEN {"ok", "500", "lost"} ELSE {"500"}

IEnd_OpOnly(w, dbn, exc) ==
    LET opFails == exc # NoExc /\ w.lcmop # NotLoaded
        op == IF opFails
              THEN [w.lcmop EXCEPT !.detailed = <<"FAILED", w.step, exc.msg>>,
                                   !.operationState = "FAILED"]
              ELSE w.lcmop
    IN  /\ wf' = [w EXCEPT !.pc = "done", !.exc = exc, !.ret = "returned", !.lcmop = op,
                           !.todo = <<>>, !.cur = "none", !.timeout = 0]
        /\ db_nsrs' = dbn
        /\ db_nslcmops' = IF opFails THEN UpdateOp(db_nslcmops, w.op, op) ELSE db_nslcmops

\* the except clauses and the finally block: the task ends
IEnd(w, dbn, exc) ==
    LET nsrFails == exc # NoExc /\ w.nsr # NotLoaded
        opFails == exc # NoExc /\ w.lcmop # NotLoaded
        nsr == IF nsrFails
               THEN [w.nsr EXCEPT !.detailed = <<"ERROR", w.step, exc.msg>>,
                                  !.operational = "failed"]
               ELSE w.nsr
        op == IF opFails
              THEN [w.lcmop EXCEPT !.detailed = <<"FAILED", w.step, exc.msg>>,
                                   !.operationState = "FAILED"]
              ELSE w.lcmop
    IN  /\ wf' = [w EXCEPT !.pc = "done", !.exc = exc, !.ret = "returned",
                           !.nsr = nsr, !.lcmop = op,
                           !.todo = <<>>, !.cur = "none", !.timeout = 0]
        /\ db_nsrs' = IF nsrFails THEN UpdateDb(dbn, nsr) ELSE dbn
        /\ db_nslcmops' = IF opFails THEN UpdateOp(db_nslcmops, w.op, op) ELSE db_nslcmops

\* the workflow suspends at its next await
IGo(w, dbn, pc) ==
    /\ wf' = [w EXCEPT !.pc = pc]
    /\ db_nsrs' = dbn
    /\ UNCHANGED db_nslcmops

\* step = db_nsr["detailed-status"] = ...
AtStep(w, step) == [w EXCEPT !.step = step, !.nsr.detailed = <<step>>]

VimLookup_AnyState ==
    IF ~db_vim_accounts.exists THEN DbExc("vim_accounts") ELSE NoExc

\* ns_params_2_RO: the exception the look-up of the VIM account raises
VimLookup ==
    IF ~db_vim_accounts.exists THEN DbExc("vim_accounts")
    ELSE IF db_vim_accounts.operationalState # "ENABLED"
    THEN LcmExc("VIM is not available")
    ELSE NoExc

\* "Creating ns at RO": ns_params_2_RO, then to await RO.create("ns")
ICreateNs(w, dbn) ==
    LET w1 == AtStep(w, "Creating ns at RO") IN
    IF VimLookup # NoExc THEN IEnd(w1, dbn, VimLookup)
    ELSE IGo(Call(w1, "create ns"), dbn, "RO.create ns")

\* the ns phase: look for the ns the document names, or create one
INsPhase(w, dbn) ==
    LET w1 == [w EXCEPT !.RO_nsr_id = w.nsr.deployed.nsr_id] IN
    IF w1.RO_nsr_id # NoUuid
    THEN IGo(Call(AtStep(w1, "Looking for existing ns at RO"), "show ns"), dbn, "RO.show ns")
    ELSE ICreateNs(w1, dbn)

\* the head of the loop over needed_vnfd, and the nsd phase after it
IVnfdLoop(w, dbn) ==
    IF w.todo # <<>>
    THEN LET w1 == [w EXCEPT !.cur = Head(w.todo), !.todo = Tail(w.todo)]
             w2 == AtStep(w1, "Creating vnfd=" \o w1.cur \o " at RO")
         IN  IGo(Call(w2, "get_list vnfd " \o w1.cur), dbn, "RO.get_list vnfd")
    ELSE LET w1 == AtStep([w EXCEPT !.cur = "none"], "Creating nsd at RO")
         IN  IGo(Call(w1, "get_list nsd"), dbn, "RO.get_list nsd")

NsKeep == UNCHANGED <<db_vim_accounts, bus_ns, order_id, ro_stuck, cb, cb_out>>

ROKeep == UNCHANGED <<ro_vnfd, ro_nsd, ro_ns, ro_uuid>>

TasksKeep == UNCHANGED <<lcm_ns_tasks, tasks>>

\* the replies to RO.get_list: a list with the item, the empty list (somebody
\* else may just have removed the item), or an error
ListReplies(found) == (IF found THEN {"ok"} ELSE {}) \cup {"none", "500"}

\* from the entry to await RO.get_list("vnfd") for the first needed vnfd
ns_instantiate_1 ==
    /\ NsOnly /\ NsKeep /\ ROKeep /\ TasksKeep
    /\ wf.kind = "ns_instantiate" /\ wf.pc = "start"
    /\ UNCHANGED db_vnfrs
    /\ IF ~Has(db_nslcmops, wf.op)
       THEN IEnd([wf EXCEPT !.step = "Getting nslcmop from db"], db_nsrs, DbExc("nslcmops"))
       ELSE LET w1 == [wf EXCEPT !.lcmop = db_nslcmops[wf.op], !.step = "Getting nsr from db"]
            IN
            IF ~db_nsrs.exists THEN IEnd(w1, db_nsrs, DbExc("nsrs"))
            ELSE IF ~(Indexes(db_nsrs.nsd) \subseteq DOMAIN db_vnfrs)
            THEN IEnd(w1, db_nsrs, DbExc("vnfrs"))
            ELSE LET nsr == [db_nsrs EXCEPT
                                !.deployed = IF @.present THEN @ ELSE NewDeployed,
                                !.detailed = <<"creating">>,
                                !.operational = "init"]
                     w2 == [w1 EXCEPT !.nsr = nsr, !.vnfr = db_vnfrs,
                                      !.todo = NeededVnfd(db_nsrs.nsd),
                                      !.step = "Getting vnfd from db"]
                 IN  IVnfdLoop(w2, db_nsrs)

\* RO.get_list("vnfd") answers: the vnfd is reused, or to await RO.create("vnfd")
ns_instantiate_vnfd_list ==
    /\ NsOnly /\ NsKeep /\ TasksKeep
    /\ wf.kind = "ns_instantiate" /\ wf.pc = "RO.get_list vnfd"
    /\ UNCHANGED <<db_vnfrs, ro_nsd, ro_ns, ro_uuid>>
    /\ LET found == {u \in DOMAIN ro_vnfd : ro_vnfd[u] = wf.cur} IN
       \E o \in ListReplies(found # {}) :
         IF o = "500"
         THEN /\ UNCHANGED ro_vnfd
              /\ IEnd(wf, db_nsrs, ROExc(o, "get_list vnfd"))
         ELSE IF o = "ok"
         THEN /\ UNCHANGED ro_vnfd
              /\ \E u \in found :
                   LET w1 == [wf EXCEPT !.nsr.deployed.vnfd_id = Put(@, wf.cur, u)]
                   IN  IVnfdLoop(w1, UpdateDb(db_nsrs, w1.nsr))
         ELSE /\ ro_vnfd' = [u \in (DOMAIN ro_vnfd) \ found |-> ro_vnfd[u]]
              /\ IGo(Call(wf, "create vnfd " \o wf.cur), db_nsrs, "RO.create vnfd")

\* RO.create("vnfd") answers
ns_instantiate_vnfd_create ==
    /\ NsOnly /\ NsKeep /\ TasksKeep
    /\ wf.kind = "ns_instantiate" /\ wf.pc = "RO.create vnfd"
    /\ UNCHANGED <<db_vnfrs, ro_nsd, ro_ns>>
    /\ \E o \in CreateReplies :
         IF o = "500"
         THEN /\ UNCHANGED <<ro_vnfd, ro_uuid>>
              /\ IEnd(wf, db_nsrs, ROExc(o, "create vnfd"))
         ELSE LET u == ro_uuid + 1
                  w1 == [wf EXCEPT !.nsr.deployed.vnfd_id = Put(@, wf.cur, u),
                                   !.nsr.nsState = "INSTANTIATED"]
              IN  /\ ro_uuid' = u
                  /\ ro_vnfd' = Put(ro_vnfd, u, wf.cur)
                  /\ IF o = "lost"
                     THEN IEnd(wf, db_nsrs, ROExc("other", "create vnfd"))
                     ELSE IVnfdLoop(w1, UpdateDb(db_nsrs, w1.nsr))

\* RO.get_list("nsd") answers: the nsd is reused, or to await RO.create("nsd")
ns_instantiate_nsd_list ==
    /\ NsOnly /\ NsKeep /\ TasksKeep
    /\ wf.kind = "ns_instantiate" /\ wf.pc = "RO.get_list nsd"
    /\ UNCHANGED <<db_vnfrs, ro_vnfd, ro_ns, ro_uuid>>
    /\ \E o \in ListReplies(ro_nsd # {}) :
         IF o = "500"
         THEN /\ UNCHANGED ro_nsd
              /\ IEnd(wf, db_nsrs, ROExc(o, "get_list nsd"))
         ELSE IF o = "ok"
         THEN /\ UNCHANGED ro_nsd
              /\ \E u \in ro_nsd :
                   LET w1 == [wf EXCEPT !.nsr.deployed.nsd_id = u]
                   IN  INsPhase(w1, UpdateDb(db_nsrs, w1.nsr))
         ELSE /\ ro_nsd' = {}
              /\ IGo(Call(wf, "create nsd"), db_nsrs, "RO.create nsd")

\* RO.create("nsd") answers
ns_instantiate_nsd_create ==
    /\ NsOnly /\ NsKeep /\ TasksKeep
    /\ wf.kind = "ns_instantiate" /\ wf.pc = "RO.create nsd"
    /\ UNCHANGED <<db_vnfrs, ro_vnfd, ro_ns>>
    /\ \E o \in CreateReplies :
         IF o = "500"
         THEN /\ UNCHANGED <<ro_nsd, ro_uuid>>
              /\ IEnd(wf, db_nsrs, ROExc(o, "create nsd"))
         ELSE LET u == ro_uuid + 1
                  w1 == [wf EXCEPT !.nsr.nsState = "INSTANTIATED",
                                   !.nsr.deployed.nsd_id = u]
              IN  /\ ro_uuid' = u
                  /\ ro_nsd' = ro_nsd \cup {u}
                  /\ IF o = "lost"
                     THEN IEnd(wf, db_nsrs, ROExc("other", "create nsd"))
                     ELSE INsPhase(w1, UpdateDb(db_nsrs, w1.nsr))

\* "Updating VNFR vimAcccount": the vnfrs documents after the loop, and the
\* exception line 819 raises when instantiate_params["vnf"], a list, is asked
\* for .get(vnf_index)
VimAccountExc(w) ==
    IF w.nsr.params.vnf /\ (\E i \in DOMAIN w.vnfr : ~w.vnfr[i].vim)
    THEN [type |-> "AttributeError", code |-> "none", msg |-> "list has no get"]
    ELSE NoExc

WithVimAccount(held) == [i \in DOMAIN held |-> [held[i] EXCEPT !.vim = TRUE]]

\* from the update of line 812 to the first await RO.show("ns") of the poll loop;
\* sets db_vnfrs
IAfterNs(w) ==
    LET dbn == UpdateDb(db_nsrs, w.nsr)
        w1 == [w EXCEPT !.step = "Updating VNFR vimAcccount"]
    IN  IF VimAccountExc(w1) # NoExc
        THEN /\ UNCHANGED db_vnfrs
             /\ IEnd(w1, dbn, VimAccountExc(w1))
        ELSE LET held == WithVimAccount(w1.vnfr)
                 w2 == AtStep([w1 EXCEPT !.vnfr = held, !.timeout = DeploymentTimeout],
                              "Waiting ns ready at RO")
             IN  /\ db_vnfrs' = UpdateVnfrs(db_vnfrs, held)
                 /\ IGo(Call(w2, "show ns"), dbn, "RO.show ns poll")

\* RO.show("ns") of the recovery answers
ns_instantiate_ns_show ==
    /\ NsOnly /\ NsKeep /\ TasksKeep
    /\ wf.kind = "ns_instantiate" /\ wf.pc = "RO.show ns"
    /\ UNCHANGED <<ro_vnfd, ro_nsd, ro_uuid>>
    /\ \E o \in NsReplies(Has(ro_ns, wf.RO_nsr_id), {"500"}) :
         IF o = "404"
         THEN /\ UNCHANGED db_vnfrs
              /\ ro_ns' = Without(ro_ns, wf.RO_nsr_id)
              /\ ICreateNs([wf EXCEPT !.RO_nsr_id = NoUuid, !.nsr.deployed.nsr_id = NoUuid],
                           db_nsrs)
         ELSE IF o # "ok"
         THEN /\ UNCHANGED <<db_vnfrs, ro_ns>>
              /\ IEnd(wf, db_nsrs, ROExc(o, "show ns"))
         ELSE \E ns_status \in Reported(ro_ns[wf.RO_nsr_id], TRUE) :
              LET w1 == [wf EXCEPT !.nsr.deployed.nsr_status = ns_status] IN
              /\ ro_ns' = Put(ro_ns, wf.RO_nsr_id, ns_status)
              /\ IF ns_status = "ERROR"
                 THEN /\ UNCHANGED db_vnfrs
                      /\ IGo(Call(AtStep(w1, "Deleting ns at RO"), "delete ns"), db_nsrs,
                             "RO.delete ns")
                 ELSE IAfterNs(w1)

\* RO.delete("ns") of the recovery answers: no reply but ok is handled here
ns_instantiate_ns_delete ==
    /\ NsOnly /\ NsKeep /\ TasksKeep
    /\ wf.kind = "ns_instantiate" /\ wf.pc = "RO.delete ns"
    /\ UNCHANGED <<db_vnfrs, ro_vnfd, ro_nsd, ro_uuid>>
    /\ \E o \in NsReplies(Has(ro_ns, wf.RO_nsr_id), {"500"}) :
         IF o # "ok"
         THEN /\ ro_ns' = IF o = "404" THEN Without(ro_ns, wf.RO_nsr_id) ELSE ro_ns
              /\ IEnd(wf, db_nsrs, ROExc(o, "delete ns"))
         ELSE /\ ro_ns' = Without(ro_ns, wf.RO_nsr_id)
              /\ ICreateNs([wf EXCEPT !.RO_nsr_id = NoUuid, !.nsr.deployed.nsr_id = NoUuid],
                           db_nsrs)

\* RO.create("ns") answers
ns_instantiate_ns_create ==
    /\ NsOnly /\ NsKeep /\ TasksKeep
    /\ wf.kind = "ns_instantiate" /\ wf.pc = "RO.create ns"
    /\ UNCHANGED <<ro_vnfd, ro_nsd>>
    /\ \E o \in CreateReplies :
         IF o = "500"
         THEN /\ UNCHANGED <<db_vnfrs, ro_ns, ro_uuid>>
              /\ IEnd(wf, db_nsrs, ROExc(o, "create ns"))
         ELSE LET u == ro_uuid + 1
                  w1 == [wf EXCEPT !.RO_nsr_id = u,
                                   !.nsr.deployed.nsr_id = u,
                                   !.nsr.nsState = "INSTANTIATED",
                                   !.nsr.deployed.nsr_status = "BUILD"]
              IN  /\ ro_uuid' = u
                  /\ ro_ns' = Put(ro_ns, u, "BUILD")
                  /\ IF o = "lost"
                     THEN /\ UNCHANGED db_vnfrs
                          /\ IEnd(wf, db_nsrs, ROExc("other", "create ns"))
                     ELSE IAfterNs(w1)

\* "Updating VNFRs" and "Configuring vnfr": to await n2vc.login(); sets db_vnfrs
IAfterPoll(w) ==
    LET held == [i \in DOMAIN w.vnfr |-> [w.vnfr[i] EXCEPT !.ip = TRUE]]
        w1 == [w EXCEPT !.step = "Updating VNFRs", !.vnfr = held, !.timeout = 0,
                        !.nsr.detailed = <<"Configuring vnfr">>]
    IN  /\ db_vnfrs' = UpdateVnfrs(db_vnfrs, held)
        /\ IGo(Call(w1, "login"), UpdateDb(db_nsrs, w1.nsr), "n2vc.login")

\* what RO.get_ns_vnf_info makes of the description of an ACTIVE ns: the
\* addresses, HTTP 409 while they are not ready, or another error
IpNotReady_Never(code) == FALSE

\* line 849: get_ns_vnf_info raised ROClientException with http_code 409, the IP
\* address is not ready
IpNotReady(code) == code = "409"

InfoReplies(wait) == (IF wait THEN {"409"} ELSE {}) \cup {"ok", "500"}

\* RO.show("ns") of the poll loop answers
ns_instantiate_poll ==
    /\ NsOnly /\ NsKeep /\ TasksKeep
    /\ wf.kind = "ns_instantiate" /\ wf.pc = "RO.show ns poll"
    /\ UNCHANGED <<ro_vnfd, ro_nsd, ro_uuid>>
    /\ \E o \in NsReplies(Has(ro_ns, wf.RO_nsr_id), {"500"}) :
         IF o # "ok"
         THEN /\ UNCHANGED db_vnfrs
              /\ ro_ns' = IF o = "404" THEN Without(ro_ns, wf.RO_nsr_id) ELSE ro_ns
              /\ IEnd(wf, db_nsrs, ROExc(o, "show ns"))
         ELSE \E ns_status \in Reported(ro_ns[wf.RO_nsr_id], MayWait(wf)) :
              LET w1 == [wf EXCEPT !.nsr.deployed.nsr_status = ns_status] IN
              /\ ro_ns' = Put(ro_ns, wf.RO_nsr_id, ns_status)
              /\ IF ns_status = "ERROR"
                 THEN /\ UNCHANGED db_vnfrs
                      /\ IEnd(w1, db_nsrs, ROExc("400", "ns_status_info"))
                 ELSE IF ns_status = "BUILD"
                 THEN LET w2 == [w1 EXCEPT !.nsr.detailed =
                                     <<"Waiting ns ready at RO", "ns_status_info">>]
                      IN  /\ UNCHANGED db_vnfrs
                          /\ IGo(w2,
                                 IF w2.nsr.detailed # w1.nsr.detailed
                                 THEN UpdateDb(db_nsrs, w2.nsr) ELSE db_nsrs,
                                 "sleep")
                 ELSE LET w2 == [w1 EXCEPT
                                    !.step = "Waiting for management IP address from VIM"]
                      IN  \E i \in InfoReplies(MayWait(wf)) :
                            IF i = "ok"
                            THEN IAfterPoll([w2 EXCEPT !.nsr.deployed.nsr_ip =
                                                           Indexes(w2.nsr.nsd)])
                            ELSE IF IpNotReady(i)
                            THEN /\ UNCHANGED db_vnfrs
                                 /\ IGo(w2, db_nsrs, "sleep")
                            ELSE /\ UNCHANGED db_vnfrs
                                 /\ IEnd(w2, db_nsrs, ROExc(i, "get_ns_vnf_info"))

TimedOut_Never(timeout) == FALSE

\* lines 831 and 854: the budget of the poll loop is used up
TimedOut(timeout) == timeout <= 0

\* asyncio.sleep(5) of the poll loop returns
ns_instantiate_sleep ==
    /\ NsOnly /\ NsKeep /\ ROKeep /\ TasksKeep
    /\ wf.kind = "ns_instantiate" /\ wf.pc = "sleep"
    /\ UNCHANGED db_vnfrs
    /\ LET w1 == [wf EXCEPT !.timeout = @ - PollSleep] IN
       IF ~TimedOut(w1.timeout)
       THEN IGo(Call(w1, "show ns"), db_nsrs, "RO.show ns poll")
       ELSE IEnd(w1, db_nsrs, ROExc("400", "Timeout waiting ns to be ready"))

\* the charms of the constituent vnfs in the order lines 947-980 deploy them:
\* the charm of the vnf, then the charm of its vdu
RECURSIVE CharmJobs(_)
CharmJobs(cs) ==
    IF cs = <<>> THEN <<>>
    ELSE (IF VnfCharm(Head(cs).vnfd) THEN <<Head(cs)>> ELSE <<>>)
         \o (IF VduCharm(Head(cs).vnfd) THEN <<Head(cs)>> ELSE <<>>)
         \o CharmJobs(Tail(cs))

\* nsr_lcm["VCA"][vnf_index] = None
NoVca == [present |-> FALSE]

\* nsr_lcm["VCA"][vnf_index] = {...} of deploy()
NewVca(job) ==
    [present |-> TRUE, application |-> "app-" \o job.idx, operational |-> "init",
     detailed |-> <<"">>, vnfd_id |-> job.vnfd]

\* deploy() for each job in turn; st holds the VCA entries, the handles and the
\* registry, the number of charms deployed, and whether the registration of
\* line 938 has raised KeyError
RECURSIVE Deploy(_, _, _)
Deploy(jobs, st, op) ==
    IF jobs = <<>> \/ st.keyError THEN st
    ELSE LET job == Head(jobs)
             name == "create_charm:" \o job.idx
             slot == Has(st.reg, "n1") /\ Has(st.reg["n1"], op)
         IN  Deploy(Tail(jobs),
                    [vca |-> Put(st.vca, job.idx, NewVca(job)),
                     tasks |-> Append(st.tasks, NewTask("ns", "n1", name)),
                     reg |-> IF slot
                             THEN [st.reg EXCEPT !["n1"][op] = Put(@, name, Len(st.tasks) + 1)]
                             ELSE st.reg,
                     n |-> IF slot THEN st.n + 1 ELSE st.n,
                     keyError |-> ~slot],
                    op)

Outcome_NotRunning(nsr, n) == nsr

\* lines 982-991: the outcome of a run that deployed n charms, on db_nsr
Outcome(nsr, n) ==
    [nsr EXCEPT !.config = IF n > 0 THEN "configuring" ELSE "configured",
                !.detailed = IF n > 0 THEN <<"configuring: init: ", ToString(n)>>
                             ELSE <<"done">>,
                !.operational = "running"]

OpOutcome_Completes(op, n) ==
    [op EXCEPT !.operationState = "COMPLETED",
               !.detailed = IF n > 0 THEN <<"configuring: init: ", ToString(n)>>
                            ELSE <<"done">>]

OpOutcome_Unsaved(op, n) == op

\* lines 982-991: the outcome on db_nslcmop
OpOutcome(op, n) ==
    IF n > 0 THEN [op EXCEPT !.detailed = <<"configuring: init: ", ToString(n)>>]
    ELSE [op EXCEPT !.operationState = "COMPLETED", !.detailed = <<"done">>]

\* n2vc.login() answers; the charms are deployed and the run ends
ns_instantiate_login ==
    /\ NsOnly /\ ROKeep
    /\ wf.kind = "ns_instantiate" /\ wf.pc = "n2vc.login"
    /\ UNCHANGED <<db_vnfrs, db_vim_accounts, bus_ns, order_id, ro_stuck>>
    /\ \E o \in {"ok", "other"} :
         IF o # "ok"
         THEN /\ TasksKeep
              /\ IEnd(wf, db_nsrs, ROExc(o, "login"))
         ELSE LET st == Deploy(CharmJobs(Constituents(wf.nsr.nsd)),
                               [vca |-> wf.nsr.deployed.VCA, tasks |-> tasks,
                                reg |-> lcm_ns_tasks, n |-> 0, keyError |-> FALSE],
                               wf.op)
                  w1 == [wf EXCEPT !.step = "Looking for needed vnfd to configure",
                                   !.nsr.deployed.VCA = st.vca]
              IN  /\ tasks' = st.tasks
                  /\ lcm_ns_tasks' = st.reg
                  /\ IF st.keyError
                     THEN IEnd(w1, db_nsrs,
                               [type |-> "KeyError", code |-> "none", msg |-> wf.op])
                     ELSE LET nsr == Outcome(w1.nsr, st.n)
                              op == OpOutcome(w1.lcmop, st.n)
                          IN  /\ wf' = [w1 EXCEPT !.pc = "done", !.ret = "returned",
                                                  !.nsr = nsr, !.lcmop = op]
                              /\ db_nsrs' = UpdateDb(db_nsrs, nsr)
                              /\ db_nslcmops' = UpdateOp(db_nslcmops, wf.op, op)
    /\ cb' = IF Len(tasks') > Len(tasks)
             THEN [exists |-> TRUE, nsr |-> wf'.nsr, op |-> wf'.lcmop, id |-> wf.op]
             ELSE cb
    /\ UNCHANGED cb_out

\* ------------------------------------------------------------------------
\* ns_terminate
\* ------------------------------------------------------------------------
\* db_nslcmop_update of the finally block
OpFailed(step, exc) ==
    [detailed |-> <<"FAILED", step, exc.msg>>, operationState |-> "FAILED"]

\* the finally block: the task ends. dbn, dbo and dbv are the three collections
\* as the try block left them. A name that was never assigned raises
\* UnboundLocalError out of the finally block.
TEnd(w, dbn, dbo, dbv) ==
    LET opUpdate == IF w.exc # NoExc /\ w.lcmop # NotLoaded
                    THEN OpFailed(w.step, w.exc)
                    ELSE w.nslcmop_update
        opRaises == opUpdate = Unbound
        nsrRaises == ~opRaises /\ w.nsr_update = Unbound
    IN  /\ wf' = [w EXCEPT !.pc = "done", !.nslcmop_update = opUpdate, !.todo = <<>>,
                           !.ret = IF opRaises \/ nsrRaises THEN "raised" ELSE "returned"]
        /\ db_nslcmops' = IF opRaises THEN dbo ELSE UpdateOp2(dbo, w.op, opUpdate)
        /\ db_nsrs' = IF opRaises \/ nsrRaises THEN dbn ELSE UpdateDb2(dbn, w.nsr_update)
        /\ db_vnfrs' = dbv

DelList_Keep(docs) == docs

\* db.del_list(table, filter): the model holds one nsr, so every document of the
\* table matches the filter
DelList(docs) == EmptyMap

Terminated_KeepState(lcm) ==
    [operational |-> "terminated", detailed |-> <<"Done">>, deployed |-> lcm]

\* db_nsr_update of lines 1162-1167
Terminated(lcm) ==
    [operational |-> "terminated", detailed |-> <<"Done">>, deployed |-> lcm,
     nsState |-> "NOT_INSTANTIATED"]

\* lines 1145-1172: the outcome of the try block, then the finally block
TOutcome(w, dbn) ==
    IF w.failed # <<>>
    THEN TEnd([w EXCEPT !.nsr_update = [operational |-> "failed",
                                        detailed |-> <<"Deletion errors">> \o w.failed,
                                        deployed |-> w.nsr_lcm],
                        !.nslcmop_update = [detailed |-> w.failed,
                                            operationState |-> "FAILED"]],
              dbn, db_nslcmops, db_vnfrs)
    ELSE IF w.lcmop.autoremove
    THEN IF dbn.exists
         THEN TEnd(w, Absent, DelList(db_nslcmops), DelList(db_vnfrs))
         ELSE TEnd([w EXCEPT !.exc = DbExc("nsrs")], dbn, db_nslcmops, db_vnfrs)
    ELSE TEnd([w EXCEPT !.nsr_update = Terminated(w.nsr_lcm),
                        !.nslcmop_update = [detailed |-> <<"Done">>,
                                            operationState |-> "COMPLETED"]],
              dbn, db_nslcmops, db_vnfrs)

Deletions_OnlyNs(lcm, nsd) ==
    IF lcm.nsr_id # NoUuid THEN << [kind |-> "ns", id |-> lcm.nsr_id, key |-> "ns"] >>
    ELSE <<>>

\* the deletions of lines 1071-1127 that are due, in their order
Deletions(lcm, nsd) ==
    (IF lcm.nsr_id # NoUuid THEN << [kind |-> "ns", id |-> lcm.nsr_id, key |-> "ns"] >>
     ELSE <<>>)
    \o (IF lcm.nsd_id # NoUuid THEN << [kind |-> "nsd", id |-> lcm.nsd_id, key |-> "nsd"] >>
        ELSE <<>>)
    \o SelectSeq([i \in DOMAIN NeededVnfd(nsd) |->
                     LET v == NeededVnfd(nsd)[i] IN
                     [kind |-> "vnfd",
                      id |-> IF Has(lcm.vnfd_id, v) THEN lcm.vnfd_id[v] ELSE NoUuid,
                      key |-> v]],
                 LAMBDA d : d.id # NoUuid)

\* to await the next RO.delete, to await asyncio.wait, or to the end
TNext(w, dbn) ==
    IF w.todo # <<>>
    THEN LET d == Head(w.todo)
             w1 == AtStep(w, "Deleting " \o d.kind \o " at RO")
         IN  /\ wf' = [Call(w1, "delete " \o d.key) EXCEPT !.pc = "RO.delete"]
             /\ db_nsrs' = dbn
             /\ UNCHANGED <<db_nslcmops, db_vnfrs>>
    ELSE IF DOMAIN w.vca # {}
    THEN /\ wf' = [w EXCEPT !.pc = "asyncio.wait"]
         /\ db_nsrs' = dbn
         /\ UNCHANGED <<db_nslcmops, db_vnfrs>>
    ELSE TOutcome(w, dbn)

\* the member-vnf-indexes whose VCA entry names an application, in order
RECURSIVE Deployed(_, _)
Deployed(cs, vca) ==
    IF cs = <<>> THEN <<>>
    ELSE (IF Has(vca, Head(cs).idx) /\ vca[Head(cs).idx].present
          THEN <<Head(cs).idx>> ELSE <<>>)
         \o Deployed(Tail(cs), vca)

\* lines 1045-1066: a RemoveCharms task per deployed charm; the KeyError of the
\* registration of line 1064 ends the loop and is logged
RECURSIVE Remove(_, _, _)
Remove(idxs, st, op) ==
    IF idxs = <<>> \/ st.keyError THEN st
    ELSE LET name == "delete_charm:" \o Head(idxs)
             slot == Has(st.reg, "n1") /\ Has(st.reg["n1"], op)
         IN  Remove(Tail(idxs),
                    [vca |-> Put(st.vca, Head(idxs), Len(st.tasks) + 1),
                     tasks |-> Append(st.tasks, NewTask("ns", "n1", name)),
                     reg |-> IF slot
                             THEN [st.reg EXCEPT !["n1"][op] = Put(@, name, Len(st.tasks) + 1)]
                             ELSE st.reg,
                     keyError |-> ~slot],
                    op)

\* from the entry to await the first RO.delete
ns_terminate_1 ==
    /\ NsOnly /\ NsKeep /\ ROKeep
    /\ wf.kind = "ns_terminate" /\ wf.pc = "start"
    /\ LET w0 == [wf EXCEPT !.step = "Getting nsr, nslcmop from db"] IN
       IF ~Has(db_nslcmops, wf.op)
       THEN /\ TasksKeep
            /\ TEnd([w0 EXCEPT !.exc = DbExc("nslcmops")], db_nsrs, db_nslcmops, db_vnfrs)
       ELSE LET w1 == [w0 EXCEPT !.lcmop = db_nslcmops[wf.op]] IN
       IF ~db_nsrs.exists
       THEN /\ TasksKeep
            /\ TEnd([w1 EXCEPT !.exc = DbExc("nsrs")], db_nsrs, db_nslcmops, db_vnfrs)
       ELSE LET w2 == [w1 EXCEPT !.nsr = db_nsrs] IN
       IF ~db_nsrs.deployed.present
       THEN /\ TasksKeep
            /\ TEnd([w2 EXCEPT !.exc = [type |-> "KeyError", code |-> "none",
                                        msg |-> "deployed"]],
                    db_nsrs, db_nslcmops, db_vnfrs)
       ELSE LET w3 == [w2 EXCEPT !.nsr_lcm = db_nsrs.deployed] IN
       IF db_nsrs.nsState = "NOT_INSTANTIATED"
       THEN /\ TasksKeep
            /\ TEnd(w3, db_nsrs, db_nslcmops, db_vnfrs)
       ELSE LET update == [operational |-> "terminating", config |-> "terminating",
                           detailed |-> <<"Deleting charms">>]
                st == Remove(Deployed(Constituents(db_nsrs.nsd), w3.nsr_lcm.VCA),
                             [vca |-> EmptyMap, tasks |-> tasks, reg |-> lcm_ns_tasks,
                              keyError |-> FALSE],
                             wf.op)
                w4 == [w3 EXCEPT !.nsr_update = update, !.vca = st.vca,
                                 !.todo = Deletions(w3.nsr_lcm, db_nsrs.nsd)]
            IN  /\ tasks' = st.tasks
                /\ lcm_ns_tasks' = st.reg
                /\ TNext(IF st.vca # EmptyMap THEN Call(w4, "RemoveCharms") ELSE w4,
                         UpdateDb2(db_nsrs, update))

\* nsr_lcm after the deletion d went through, or met HTTP 404
Nulled(lcm, d) ==
    IF d.kind = "ns" THEN [lcm EXCEPT !.nsr_id = NoUuid, !.nsr_status = "DELETED"]
    ELSE IF d.kind = "nsd" THEN [lcm EXCEPT !.nsd_id = NoUuid]
    ELSE [lcm EXCEPT !.vnfd_id = Put(@, d.key, NoUuid)]

Reaction_Abort(o) == IF o \in {"ok", "404"} THEN "nulled" ELSE "raise"

\* what the try/except around one RO.delete makes of the reply: the id is
\* nulled, a failed-detail is added, or the exception goes to the outer handler
Reaction(o) ==
    IF o \in {"ok", "404"} THEN "nulled"
    ELSE IF o = "other" THEN "raise"
    ELSE "failed"

\* failed_detail.append(...) for a reply that is neither ok nor 404
FailedDetail(d, o) ==
    "RO_" \o d.kind \o "_id=" \o ToString(d.id) \o " delete "
    \o (IF o = "409" THEN "conflict" ELSE "error")

\* the errors RO.delete answers with in the model: a conflict or an exception
\* that is not RO's for every kind, and another HTTP error for the ns
DeleteErrors(kind) == {"409", "other"} \cup (IF kind = "ns" THEN {"500"} ELSE {})

\* RO.delete answers
ns_terminate_delete ==
    /\ NsOnly /\ NsKeep /\ TasksKeep
    /\ wf.kind = "ns_terminate" /\ wf.pc = "RO.delete"
    /\ UNCHANGED ro_uuid
    /\ LET d == Head(wf.todo)
           found == d.id \in (DOMAIN ro_vnfd) \cup ro_nsd \cup (DOMAIN ro_ns)
       IN  \E o \in NsReplies(found, DeleteErrors(d.kind)) :
             /\ ro_vnfd' = IF o \in {"ok", "404"} THEN Without(ro_vnfd, d.id) ELSE ro_vnfd
             /\ ro_nsd' = IF o \in {"ok", "404"} THEN ro_nsd \ {d.id} ELSE ro_nsd
             /\ ro_ns' = IF o \in {"ok", "404"} THEN Without(ro_ns, d.id) ELSE ro_ns
             /\ IF Reaction(o) = "raise"
                THEN TEnd([wf EXCEPT !.exc = ROExc(o, "delete " \o d.key)],
                          db_nsrs, db_nslcmops, db_vnfrs)
                ELSE TNext([wf EXCEPT !.todo = Tail(@),
                                      !.nsr_lcm = IF Reaction(o) = "nulled"
                                                  THEN Nulled(@, d) ELSE @,
                                      !.failed = IF Reaction(o) = "failed"
                                                 THEN Append(@, FailedDetail(d, o)) ELSE @],
                           db_nsrs)

\* lines 1131-1143, for the tasks of vca_task_dict in turn; res says how
\* asyncio.wait left each: "ok", "exc" (done with an exception), "cancelled",
\* or "timeout" (still running)
RECURSIVE Collect(_, _, _)
Collect(idxs, res, st) ==
    IF idxs = <<>> THEN st
    ELSE LET i == Head(idxs)
             h == st.vca[i]
             r == res[i]
         IN  Collect(Tail(idxs), res,
                [st EXCEPT
                   !.failed = IF r = "ok" THEN @
                              ELSE Append(@, "VCA[" \o i \o "] Deletion " \o r),
                   !.exc = IF r = "exc" THEN [type |-> "N2VCException", code |-> "none",
                                              msg |-> "RemoveCharms"]
                           ELSE IF r = "ok" THEN NoExc
                           ELSE @,
                   !.lcm.VCA = IF r = "ok" THEN Put(@, i, NoVca) ELSE @,
                   !.tasks[h].done = IF r \in {"ok", "exc", "cancelled"} THEN TRUE ELSE @,
                   !.tasks[h].cancelReq = IF r = "timeout" THEN TRUE ELSE @])

\* how asyncio.wait can leave the task h
WaitResults(h) ==
    IF tasks[h].cancelReq THEN {"cancelled"} ELSE {"ok", "exc", "timeout"}

\* asyncio.wait(vca_task_list, timeout=300) returns; to the end
ns_terminate_wait ==
    /\ NsOnly /\ NsKeep /\ ROKeep
    /\ wf.kind = "ns_terminate" /\ wf.pc = "asyncio.wait"
    /\ UNCHANGED lcm_ns_tasks
    /\ \E res \in [DOMAIN wf.vca -> {"ok", "exc", "timeout", "cancelled"}] :
         /\ \A i \in DOMAIN wf.vca : res[i] \in WaitResults(wf.vca[i])
         /\ LET st == Collect(Deployed(Constituents(wf.nsr.nsd), wf.nsr.deployed.VCA), res,
                              [failed |-> wf.failed, exc |-> wf.exc, lcm |-> wf.nsr_lcm,
                               tasks |-> tasks, vca |-> wf.vca])
            IN  /\ tasks' = st.tasks
                /\ TOutcome([wf EXCEPT !.failed = st.failed, !.exc = st.exc,
                                       !.nsr_lcm = st.lcm],
                            db_nsrs)


\* ------------------------------------------------------------------------
\* n2vc_callback
\* ------------------------------------------------------------------------
\* the statuses a charm reports to the callback
VcaStatuses == {"active", "error", "blocked", "maintenance"}

\* the statuses in the order status_map yields them
StatusOrder == <<"init", "maintenance", "active", "blocked", "error">>

RECURSIVE Join(_, _)
Join(items, separator) ==
    IF items = <<>> THEN ""
    ELSE IF Len(items) = 1 THEN Head(items)
    ELSE Head(items) \o separator \o Join(Tail(items), separator)

\* lines 587-593: status_map, as the "status: num" items of line 618
RECURSIVE StatusMap(_, _)
StatusMap(vca, order) ==
    IF order = <<>> THEN <<>>
    ELSE LET num == Cardinality({i \in DOMAIN vca : vca[i].operational = Head(order)})
         IN  (IF num > 0 THEN <<Head(order) \o ": " \o ToString(num)>> ELSE <<>>)
             \o StatusMap(vca, Tail(order))

\* lines 595-599: the entries n2vc_error_text gets an item for. The elif hangs from
\* "if vca_status != 'active'", so only an entry that is "active" reaches its test
ErrorText(vca) ==
    {i \in DOMAIN vca : /\ ~(vca[i].operational # "active")
                        /\ vca[i].operational \in {"error", "blocked"}}

RECURSIVE ErrorItems(_, _, _)
ErrorItems(vca, left, idx) ==
    IF left = {} THEN <<>>
    ELSE LET i == CHOOSE x \in left : TRUE
         IN  <<"member_vnf_index=" \o idx \o " " \o vca[i].operational \o ": "
               \o Join(vca[i].detailed, "")>>
             \o ErrorItems(vca, left \ {i}, idx)

\* what the try block raises on a document: a key that is missing, a value that is
\* None where a dictionary is expected
KeyError(key) == [type |-> "KeyError", code |-> "none", msg |-> key]
TypeError == [type |-> "TypeError", code |-> "none", msg |-> "NoneType"]

Aggregate_Configured(d, idx) ==
    LET vca == d.nsr.deployed.VCA IN
    IF \E i \in DOMAIN vca : ~vca[i].present THEN [d EXCEPT !.exc = TypeError]
    ELSE [nsr |-> [d.nsr EXCEPT !.config = "configured", !.detailed = <<"done">>],
          op |-> [d.op EXCEPT !.operationState = "COMPLETED", !.detailed = <<"Done">>],
          write |-> {"nsrs", "nslcmops"}, exc |-> NoExc]

\* lines 584-624: the aggregation over nsr_lcm["VCA"]; d holds db_nsr, db_nslcmop and
\* the collections the finally block will write. An entry that is None raises
\* TypeError at line 588, which leaves the flags False
Aggregate(d, idx) ==
    LET vca == d.nsr.deployed.VCA IN
    IF \E i \in DOMAIN vca : ~vca[i].present THEN [d EXCEPT !.exc = TypeError]
    ELSE IF \A i \in DOMAIN vca : vca[i].operational = "active"
    THEN [nsr |-> [d.nsr EXCEPT !.config = "configured", !.detailed = <<"done">>],
          op |-> [d.op EXCEPT !.operationState = "COMPLETED", !.detailed = <<"Done">>],
          write |-> {"nsrs", "nslcmops"}, exc |-> NoExc]
    ELSE IF ErrorText(vca) # {}
    THEN LET error_text == <<"fail configuring ",
                             Join(ErrorItems(vca, ErrorText(vca), idx), ";")>>
         IN  [nsr |-> [d.nsr EXCEPT !.config = "failed", !.detailed = error_text],
              op |-> [d.op EXCEPT !.operationState = "FAILED_TEMP",
                                  !.detailed = error_text],
              write |-> {"nsrs", "nslcmops"}, exc |-> NoExc]
    ELSE LET cs == "configuring: " \o Join(StatusMap(vca, StatusOrder), ", ")
         IN  [nsr |-> [d.nsr EXCEPT !.config = cs, !.detailed = <<cs>>],
              op |-> [d.op EXCEPT !.detailed = <<cs>>],
              write |-> {"nsrs", "nslcmops"}, exc |-> NoExc]

\* nsr_lcm["VCA"][member_vnf_index][...] = ... of lines 555-556 and 581-582
SetStatus(d, idx, status, detailed) ==
    [d EXCEPT !.nsr.deployed.VCA[idx].operational = status,
              !.nsr.deployed.VCA[idx].detailed = detailed]

TaskCancelled_Mark(d, idx) == Aggregate(SetStatus(d, idx, "error", <<"cancelled">>), idx)

\* lines 544-548: the task of the completion callback was cancelled
TaskCancelled(d, idx) == d

\* lines 535-624: the try block on db_nsr and db_nslcmop. task is "none" for a change
\* of status, otherwise how the task ended: "cancelled", "exc" or "ok"
n2vc_callback(d, idx, status, message, task) ==
    LET vca == d.nsr.deployed.VCA
        ns_action == d.op.type
        entry == Has(vca, idx) /\ vca[idx].present
        noEntry == [d EXCEPT !.exc = IF Has(vca, idx) THEN TypeError ELSE KeyError(idx)]
    IN  IF d.nsr = NotLoaded \/ d.op = NotLoaded THEN [d EXCEPT !.exc = TypeError]
        ELSE IF ~d.nsr.deployed.present THEN [d EXCEPT !.exc = KeyError("deployed")]
        ELSE IF task # "none"
        THEN IF task = "cancelled" THEN TaskCancelled(d, idx)
             ELSE IF task = "exc"
             THEN IF ns_action \in {"instantiate", "terminate"}
                  THEN IF entry THEN Aggregate(SetStatus(d, idx, "error", <<"exc">>), idx)
                       ELSE noEntry
                  ELSE IF ns_action = "action"
                  THEN [d EXCEPT !.op.operationState = "FAILED", !.op.detailed = <<"exc">>,
                                 !.write = {"nslcmops"}]
                  ELSE Aggregate(d, idx)
             ELSE IF ns_action = "action"
             THEN [d EXCEPT !.op.operationState = "COMPLETED", !.op.detailed = <<"Done">>,
                            !.write = {"nslcmops"}]
             ELSE d
        ELSE IF status # "none"
        THEN IF ~entry THEN noEntry
             ELSE IF vca[idx].operational = status THEN d
             ELSE Aggregate(SetStatus(d, idx, status, <<message>>), idx)
        ELSE d

\* the arguments db_nsr and db_nslcmop of the callbacks
CbDocs == [nsr |-> cb.nsr, op |-> cb.op, write |-> {}, exc |-> NoExc]

\* the classes of the exceptions that derive from Exception
ExceptionClasses == {"Exception", "KeyError", "TypeError", "DbException"}

Swallowed_KeyErrors(exc) == IF exc.type = "KeyError" THEN NoExc ELSE exc

\* lines 625-626 and 634-636: "except Exception as e:" logs the exception; what goes
\* on past the clause
Swallowed(exc) == IF exc.type \in ExceptionClasses THEN NoExc ELSE exc

\* the update_db calls of the finally block that a fault of the DB driver can hit
DbFaults == {"none", "nslcmops", "nsrs"}

\* lines 626-636: the except clause and the finally block. fault is the update_db
\* call in which the driver raises something that is not DbException, or "none"
n2vc_return(d, fault) ==
    LET hit == fault # "none" /\ fault \in d.write
        raised == IF hit THEN [type |-> "Exception", code |-> "none", msg |-> fault]
                  ELSE NoExc
        out == IF Swallowed(d.exc) # NoExc THEN Swallowed(d.exc) ELSE Swallowed(raised)
        opWritten == "nslcmops" \in d.write /\ fault # "nslcmops"
        nsrWritten == "nsrs" \in d.write /\ ~hit
    IN  /\ cb' = [cb EXCEPT !.nsr = d.nsr, !.op = d.op]
        /\ cb_out' = [ret |-> IF out = NoExc THEN "returned" ELSE "raised",
                      caught |-> IF d.exc # NoExc THEN d.exc.type ELSE raised.type]
        /\ db_nslcmops' = IF opWritten /\ cb.op # NotLoaded
                          THEN UpdateOp(db_nslcmops, cb.id, d.op)
                          ELSE db_nslcmops
        /\ db_nsrs' = IF nsrWritten THEN UpdateDb(db_nsrs, d.nsr) ELSE db_nsrs

CharmTask(h, idx) == tasks[h].name = "create_charm:" \o idx

\* the VCA calls the callback for a change of status of the charm of idx
n2vc_status(idx, status, message) ==
    /\ NsOnly /\ ROKeep /\ TasksKeep
    /\ cb # NotLoaded
    /\ \E h \in DOMAIN tasks : CharmTask(h, idx) /\ ~tasks[h].cancelReq
    /\ n2vc_return(n2vc_callback(CbDocs, idx, status, message, "none"), "none")
    /\ UNCHANGED <<db_vnfrs, db_vim_accounts, bus_ns, order_id, ro_stuck, wf>>

\* a DeployCharms task ends and the loop runs its done callback
n2vc_done(h, idx) ==
    /\ NsOnly /\ ROKeep
    /\ cb # NotLoaded
    /\ h \in DOMAIN tasks /\ CharmTask(h, idx) /\ ~tasks[h].done
    /\ tasks' = [tasks EXCEPT ![h].done = TRUE]
    /\ \E task \in (IF tasks[h].cancelReq THEN {"cancelled"} ELSE {"ok", "exc"}) :
         n2vc_return(n2vc_callback(CbDocs, idx, "none", "none", task), "none")
    /\ UNCHANGED <<lcm_ns_tasks, db_vnfrs, db_vim_accounts, bus_ns, order_id, ro_stuck, wf>>

\* ------------------------------------------------------------------------
\* ns_action
\* ------------------------------------------------------------------------
\* the member-vnf-indexes an action may name: "3" is no constituent of any nsd
ActionIndexes == {"1", "2", "3"}

\* the nslcmops document of an action as the NBI stores it; operationParams
\* names the member-vnf-index
NewActionOp(idx) ==
    [type |-> "action", operationState |-> "PROCESSING", detailed |-> <<"">>,
     autoremove |-> FALSE, member_vnf_index |-> idx]

\* the NBI stores the nslcmops document of an action and publishes the command
nbi_action(idx) ==
    /\ NsOnly
    /\ WfIdle
    /\ bus_ns = NoRecord
    /\ db_nsrs.exists
    /\ order_id <= MaxRecords
    /\ db_nslcmops' = Put(db_nslcmops, OpId(order_id), NewActionOp(idx))
    /\ bus_ns' = Rec("ns", "action", "n1", OpId(order_id), "none", "none")
    /\ UNCHANGED <<db_nsrs, db_vnfrs, db_vim_accounts, ro_vnfd, ro_nsd, ro_ns, ro_uuid,
                   ro_stuck, wf, cb, cb_out, lcm_ns_tasks, tasks, order_id>>

\* the message of line 1215
NotActive(idx, status) ==
    "charm for member_vnf_index=" \o idx \o " operational_status=" \o status
    \o " not 'active'"

Validate_Accept(nsr, idx) == NoExc

\* lines 1205-1216: the exception the look-up of the charm raises
Validate(nsr, idx) ==
    IF ~nsr.deployed.present
    THEN [type |-> "TypeError", code |-> "none", msg |-> "'NoneType' object"]
    ELSE IF ~Has(nsr.deployed.VCA, idx) \/ ~nsr.deployed.VCA[idx].present
    THEN LcmExc("charm for member_vnf_index=" \o idx \o " is not deployed")
    ELSE IF nsr.deployed.VCA[idx].operational # "active"
    THEN LcmExc(NotActive(idx, nsr.deployed.VCA[idx].operational))
    ELSE NoExc

\* lines 1265-1279: the except clauses and the finally block; update is
\* db_nslcmop_update as the try block left it (EmptyMap is None)
AEnd(w, exc, update) ==
    LET opUpdate == IF exc # NoExc /\ w.lcmop # NotLoaded THEN OpFailed(w.step, exc)
                    ELSE update
    IN  /\ wf' = [w EXCEPT !.pc = "done", !.exc = exc, !.ret = "returned",
                           !.nslcmop_update = opUpdate]
        /\ db_nslcmops' = UpdateOp2(db_nslcmops, w.op, opUpdate)

\* from the start to await n2vc.login(), or to the end
ns_action_1 ==
    /\ NsOnly /\ NsKeep /\ ROKeep /\ TasksKeep
    /\ wf.kind = "ns_action" /\ wf.pc = "start"
    /\ UNCHANGED <<db_nsrs, db_vnfrs>>
    /\ LET w0 == [wf EXCEPT !.step = "Getting information from database"] IN
       IF ~Has(db_nslcmops, wf.op) THEN AEnd(w0, DbExc("nslcmops"), EmptyMap)
       ELSE LET w1 == [w0 EXCEPT !.lcmop = db_nslcmops[wf.op]] IN
       IF ~db_nsrs.exists THEN AEnd(w1, DbExc("nsrs"), EmptyMap)
       ELSE LET w2 == [w1 EXCEPT !.nsr = db_nsrs]
                exc == Validate(db_nsrs, w1.lcmop.member_vnf_index)
            IN  IF exc # NoExc THEN AEnd(w2, exc, EmptyMap)
                ELSE /\ wf' = [Call(w2, "login") EXCEPT !.pc = "n2vc.login"]
                     /\ UNCHANGED db_nslcmops

\* n2vc.login() answers: ExecutePrimitive is started, to await asyncio.wait
ns_action_login ==
    /\ NsOnly /\ NsKeep /\ ROKeep
    /\ wf.kind = "ns_action" /\ wf.pc = "n2vc.login"
    /\ UNCHANGED <<db_nsrs, db_vnfrs, lcm_ns_tasks>>
    /\ \E o \in {"ok", "other"} :
         IF o # "ok"
         THEN /\ UNCHANGED tasks
              /\ AEnd(wf, ROExc(o, "login"), EmptyMap)
         ELSE /\ tasks' = Append(tasks, NewTask("ns", "n1", "ExecutePrimitive"))
              /\ wf' = [Call(wf, "ExecutePrimitive") EXCEPT
                           !.pc = "asyncio.wait",
                           !.vca = Put(EmptyMap, wf.lcmop.member_vnf_index, Len(tasks) + 1)]
              /\ UNCHANGED db_nslcmops

\* how asyncio.wait can leave the task of ExecutePrimitive: the task is in no
\* registry, so it is cancelled only from outside this program (the VCA library, the
\* loop)
PrimitiveResults == {"ok", "exc", "timeout", "cancelled"}

\* asyncio.wait((task,), timeout=300) returns with the task in state r; to the end
ns_action_result(r) ==
    /\ NsOnly /\ NsKeep /\ ROKeep
    /\ wf.kind = "ns_action" /\ wf.pc = "asyncio.wait"
    /\ UNCHANGED <<db_nsrs, db_vnfrs, lcm_ns_tasks>>
    /\ LET h == wf.vca[wf.lcmop.member_vnf_index] IN
         /\ r \in (IF tasks[h].cancelReq THEN {"cancelled"} ELSE PrimitiveResults)
         /\ tasks' = [tasks EXCEPT ![h].done = IF r = "timeout" THEN @ ELSE TRUE,
                                   ![h].cancelReq = IF r = "timeout" THEN TRUE ELSE @]
         /\ LET w1 == IF r = "cancelled"
                      THEN [wf EXCEPT !.lcmop.detailed = <<"Task has been cancelled">>]
                      ELSE wf
                update == [detailed |-> IF r = "ok" THEN <<"Done">>
                                        ELSE IF r = "exc" THEN <<"exc">>
                                        ELSE IF r = "timeout" THEN <<"timeout">>
                                        ELSE <<"">>,
                           operationState |-> IF r = "ok" THEN "COMPLETED" ELSE "FAILED"]
            IN  AEnd(w1,
                     IF r = "exc"
                     THEN [type |-> "Exception", code |-> "none", msg |-> "exc"]
                     ELSE NoExc,
                     update)

ns_action_wait == \E r \in PrimitiveResults : ns_action_result(r)

\* ------------------------------------------------------------------------
\* Lcm.__init__ and start(): both fibres at their first await
\* ------------------------------------------------------------------------
Init ==
    /\ lcm_ns_tasks = EmptyMap
    /\ lcm_vim_tasks = EmptyMap
    /\ lcm_sdn_tasks = EmptyMap
    /\ tasks = <<>>
    /\ pings_not_received = 1
    /\ order_id = 1
    /\ rd_errors = 0
    /\ rd_first = TRUE
    /\ rd_pc = "read"
    /\ pg_errors = 0
    /\ pg_first = TRUE
    /\ pg_received = FALSE
    /\ pg_wait = 0
    /\ pg_pc = "write"
    /\ bus_pings = 0
    /\ proc = "running"
    /\ db_vim_accounts = Absent
    /\ db_sdns = Absent
    /\ ro_vim = {}
    /\ ro_att = {}
    /\ ro_sdn = {}
    /\ ro_count = 0
    /\ v_kind = "none"
    /\ v_pc = "idle"
    /\ v_step = "none"
    /\ v_doc = NotLoaded
    /\ v_exc = NoExc
    /\ v_in = NoContent
    /\ v_called = {}
    /\ v_ret = "none"
    /\ db_nsrs = Absent
    /\ db_nslcmops = EmptyMap
    /\ db_vnfrs = EmptyMap
    /\ ro_vnfd = EmptyMap
    /\ ro_nsd = {}
    /\ ro_ns = EmptyMap
    /\ ro_uuid = 0
    /\ ro_stuck = FALSE
    /\ bus_ns = NoRecord
    /\ wf = NoWf
    /\ cb = NotLoaded
    /\ cb_out = NoOut

\* The dispatch loop over every record of the bus, the prober left out: the prober
\* never touches the registry or the handles.
NextRegistry ==
    \/ \E rec \in ExternalRecords : ReadExternal(rec)
    \/ \E t \in 1..MaxRecords : TaskDone(t)

SpecRegistry == Init /\ [][NextRegistry]_vars

\* The two fibres of start() on the admin topic, with the bus failing at will.
NextBus ==
    \/ \E rec \in AdminRecords : ReadExternal(rec)
    \/ ReadSelfPing
    \/ ReadError
    \/ ReadMalformed
    \/ ReadWake
    \/ PingPublish
    \/ PingCount
    \/ PingWake
    \/ PingError
    \/ PingRetry

SpecBus == Init /\ [][NextBus]_vars

\* The prober under the loop's scheduling: as long as the process runs, an
\* aiowrite of the prober returns or raises, and each of its sleeps ends.
ProberFairness ==
    /\ WF_vars(PingPublish \/ PingError)
    /\ WF_vars(PingCount)
    /\ WF_vars(PingWake)
    /\ WF_vars(PingRetry)

SpecBusLive == Init /\ [][NextBus]_vars /\ ProberFairness

\* The VIM and SDN workflows, one at a time, against an RO that may fail any call.
NextVim ==
    \/ \E admin \in BOOLEAN : nbi_new_vim(admin)
    \/ \E admin \in BOOLEAN : nbi_new_sdn(admin)
    \/ \E u \in 1..MaxUuid : ro_forgets(u)
    \/ \E content \in CreateContents : vim_create_1(content)
    \/ vim_create_2
    \/ vim_create_3
    \/ \E content \in Contents : vim_edit_1(content)
    \/ vim_edit_2
    \/ vim_edit_3
    \/ vim_delete_1
    \/ vim_delete_2
    \/ vim_delete_3
    \/ sdn_create_1
    \/ sdn_create_2
    \/ \E content \in {c \in Contents : c.sdn = "none" /\ ~c.acct} : sdn_edit_1(content)
    \/ sdn_edit_2
    \/ sdn_delete_1
    \/ sdn_delete_2

SpecVim == Init /\ [][NextVim]_vars


\* the network services the NBI stores in the model: each descriptor with plain
\* parameters and an enabled VIM, and the first descriptor also with per-vnf
\* parameters and with a VIM that is in error
NewNss ==
    {[nsd |-> nsd, vnf |-> FALSE, vim |-> EnabledVim] : nsd \in NsdIds}
    \cup {[nsd |-> "nsd0", vnf |-> TRUE, vim |-> EnabledVim],
          [nsd |-> "nsd0", vnf |-> FALSE, vim |-> FailedVim]}

\* The NS workflows, one at a time, against an RO and a VCA that may fail any call.
NextNs ==
    \/ \E ns \in NewNss : nbi_new_ns(ns.nsd, [vnf |-> ns.vnf], ns.vim)
    \/ nbi_command("instantiate", FALSE)
    \/ \E autoremove \in BOOLEAN : nbi_command("terminate", autoremove)
    \/ ns_read
    \/ ns_instantiate_1
    \/ ns_instantiate_vnfd_list
    \/ ns_instantiate_vnfd_create
    \/ ns_instantiate_nsd_list
    \/ ns_instantiate_nsd_create
    \/ ns_instantiate_ns_show
    \/ ns_instantiate_ns_delete
    \/ ns_instantiate_ns_create
    \/ ns_instantiate_poll
    \/ ns_instantiate_sleep
    \/ ns_instantiate_login
    \/ ns_terminate_1
    \/ ns_terminate_delete
    \/ ns_terminate_wait

SpecNs == Init /\ [][NextNs]_vars

\* RO's deployments hang from the start: every ns it creates stays in BUILD
ro_sticks ==
    /\ ~ro_stuck
    /\ ~db_nsrs.exists
    /\ ro_stuck' = TRUE
    /\ UNCHANGED <<dispVars, vimVars, db_nsrs, db_nslcmops, db_vnfrs, ro_vnfd, ro_nsd,
                   ro_ns, ro_uuid, bus_ns, wf, cb, cb_out>>

\* the first ns_instantiate of an nsr against an RO whose deployments hang: the
\* poll loop runs its 7200 s out
NextStuck ==
    \/ ro_sticks
    \/ \E ns \in NewNss : ro_stuck /\ nbi_new_ns(ns.nsd, [vnf |-> ns.vnf], ns.vim)
    \/ order_id = 1 /\ nbi_command("instantiate", FALSE)
    \/ ns_read
    \/ ns_instantiate_1
    \/ ns_instantiate_vnfd_list
    \/ ns_instantiate_vnfd_create
    \/ ns_instantiate_nsd_list
    \/ ns_instantiate_nsd_create
    \/ ns_instantiate_ns_create
    \/ ns_instantiate_poll
    \/ ns_instantiate_sleep

SpecStuck == Init /\ [][NextStuck]_vars

\* the instantiate has ended and no other command has been read
Configuring == wf.kind = "ns_instantiate" /\ wf.pc = "done"

\* One instantiate, the callbacks of its charms, and then an action or a terminate.
\* The charms report until the next command is read; the done callback of a
\* cancelled task runs at any time.
NextVca ==
    \/ \E nsd \in {"nsd1", "nsd2"} : nbi_new_ns(nsd, [vnf |-> FALSE], EnabledVim)
    \/ order_id = 1 /\ nbi_command("instantiate", FALSE)
    \/ order_id = 2 /\ nbi_command("terminate", FALSE)
    \/ \E idx \in ActionIndexes : order_id = 2 /\ nbi_action(idx)
    \/ ns_read
    \/ ns_instantiate_1
    \/ ns_instantiate_vnfd_list
    \/ ns_instantiate_vnfd_create
    \/ ns_instantiate_nsd_list
    \/ ns_instantiate_nsd_create
    \/ ns_instantiate_ns_create
    \/ ns_instantiate_poll
    \/ ns_instantiate_sleep
    \/ ns_instantiate_login
    \/ \E idx \in ActionIndexes, status \in VcaStatuses :
          Configuring /\ n2vc_status(idx, status, "msg")
    \/ \E h \in DOMAIN tasks, idx \in ActionIndexes :
          (Configuring \/ tasks[h].cancelReq) /\ n2vc_done(h, idx)
    \/ ns_action_1
    \/ ns_action_login
    \/ ns_action_wait
    \/ ns_terminate_1
    \/ ns_terminate_delete
    \/ ns_terminate_wait

SpecVca == Init /\ [][NextVca]_vars

\* asyncio.CancelledError as raised at the await of a cancelled task
CancelledError == [type |-> "CancelledError", code |-> "none", msg |-> ""]

\* the NBI publishes a terminate while a workflow of the NS is running
nbi_interrupt(autoremove) ==
    /\ NsOnly
    /\ ~WfIdle
    /\ bus_ns = NoRecord
    /\ db_nsrs.exists
    /\ order_id <= MaxRecords
    /\ db_nslcmops' = Put(db_nslcmops, OpId(order_id), NewOp("terminate", autoremove))
    /\ bus_ns' = Rec("ns", "terminate", "n1", OpId(order_id), "none", "none")
    /\ UNCHANGED <<db_nsrs, db_vnfrs, db_vim_accounts, ro_vnfd, ro_nsd, ro_ns, ro_uuid,
                   ro_stuck, wf, cb, cb_out, lcm_ns_tasks, tasks, order_id>>

\* the running workflow gets CancelledError at the await it is suspended at, or
\* never runs when it has not started. caught: CancelledError is an Exception
\* in the build (Python before 3.8) and the "except Exception" clause takes it;
\* otherwise only the finally block runs
Interrupted(caught) ==
    IF wf.pc = "start"
    THEN /\ wf' = [wf EXCEPT !.pc = "done", !.ret = "cancelled"]
         /\ UNCHANGED <<db_nsrs, db_nslcmops, db_vnfrs>>
    ELSE IF wf.kind = "ns_instantiate"
    THEN /\ UNCHANGED db_vnfrs
         /\ IF caught THEN IEnd(wf, db_nsrs, CancelledError)
            ELSE /\ wf' = [wf EXCEPT !.pc = "done", !.ret = "cancelled"]
                 /\ UNCHANGED <<db_nsrs, db_nslcmops>>
    ELSE TEnd([wf EXCEPT !.exc = IF caught THEN CancelledError ELSE NoExc],
              db_nsrs, db_nslcmops, db_vnfrs)

\* kafka_read consumes a terminate while a workflow of the NS is running:
\* cancel_tasks, the spawn, and then the cancelled task, which is the first to run
ns_read_cancel ==
    /\ CanRead
    /\ bus_ns # NoRecord /\ IsCancelling(bus_ns)
    /\ ~WfIdle
    /\ Handle(bus_ns)
    /\ bus_ns' = NoRecord
    /\ \E caught \in BOOLEAN : Interrupted(caught)
    /\ UNCHANGED <<ro_vnfd, ro_nsd, ro_ns, ro_uuid, ro_stuck, cb, cb_out, bus_pings, vimVars>>

\* the task kafka_read has spawned last has not run yet
Spawned ==
    /\ wf.pc = "done"
    /\ tasks # <<>> /\ Len(tasks) > wf.task
    /\ tasks[Len(tasks)].name = "ns_terminate"

\* the spawned ns_terminate starts
ns_spawned ==
    /\ NsOnly /\ NsKeep /\ ROKeep /\ TasksKeep
    /\ Spawned
    /\ \E op \in DOMAIN lcm_ns_tasks["n1"] :
         /\ Has(lcm_ns_tasks["n1"][op], "ns_terminate")
         /\ lcm_ns_tasks["n1"][op]["ns_terminate"] = Len(tasks)
         /\ wf' = [NoWf EXCEPT !.kind = "ns_terminate", !.pc = "start", !.op = op,
                               !.task = Len(tasks)]
    /\ UNCHANGED <<db_nsrs, db_nslcmops, db_vnfrs>>

\* The NS workflows with terminate commands that arrive while a workflow runs.
NextCancel ==
    \/ nbi_new_ns("nsd1", [vnf |-> FALSE], EnabledVim)
    \/ order_id = 1 /\ nbi_command("instantiate", FALSE)
    \/ ~Spawned /\ nbi_command("terminate", FALSE)
    \/ \E autoremove \in BOOLEAN : nbi_interrupt(autoremove)
    \/ WfIdle /\ ns_read
    \/ ns_read_cancel
    \/ ns_spawned
    \/ ns_instantiate_1
    \/ ns_instantiate_vnfd_list
    \/ ns_instantiate_vnfd_create
    \/ ns_instantiate_nsd_list
    \/ ns_instantiate_nsd_create
    \/ ns_instantiate_ns_create
    \/ ns_instantiate_poll
    \/ ns_instantiate_sleep
    \/ ns_instantiate_login
    \/ ns_terminate_1
    \/ ns_terminate_delete
    \/ ns_terminate_wait

SpecCancel == Init /\ [][NextCancel]_vars

\* ------------------------------------------------------------------------
\* n2vc_callback on documents of any shape
\* ------------------------------------------------------------------------
CbIndexes == {"1", "2"}

\* an entry of nsr_lcm["VCA"]: None, or a dictionary with an operational-status
VcaEntries ==
    {NoVca} \cup {[NewVca([idx |-> "1", vnfd |-> "B"]) EXCEPT !.operational = s] :
                    s \in {"init", "active", "error"}}

\* nsr_lcm["VCA"]: the entries of some of the indexes
VcaShapes == UNION {[I -> VcaEntries] : I \in SUBSET CbIndexes}

\* db_nsr: None, a document without _admin.deployed, or one with VCA of a shape
NsrShapes ==
    {NotLoaded, NewNsr("nsd1", [vnf |-> FALSE])}
    \cup {[NewNsr("nsd1", [vnf |-> FALSE]) EXCEPT !.deployed = [NewDeployed EXCEPT !.VCA = v]] :
            v \in VcaShapes}

\* db_nslcmop: None or the document of an operation of some type
OpShapes ==
    {NotLoaded, NewOp("instantiate", FALSE), NewOp("terminate", FALSE), NewActionOp("1")}

\* lines 925-936: the callbacks are bound to db_nsr and db_nslcmop, of which the DB
\* holds the documents
n2vc_bound(nsr, op) ==
    /\ NsOnly /\ ROKeep /\ TasksKeep
    /\ cb = NotLoaded /\ WfIdle /\ ~db_nsrs.exists
    /\ cb' = [exists |-> TRUE, nsr |-> nsr, op |-> op, id |-> OpId(1)]
    /\ db_nsrs' = IF nsr # NotLoaded THEN nsr ELSE db_nsrs
    /\ db_nslcmops' = IF op # NotLoaded THEN Put(db_nslcmops, OpId(1), op) ELSE db_nslcmops
    /\ UNCHANGED <<db_vnfrs, db_vim_accounts, bus_ns, order_id, ro_stuck, wf, cb_out>>

\* n2vc_callback is called with a status (task None), or with the task of a
\* completion (status None), or with neither
n2vc_called(idx, status, task, fault) ==
    /\ NsOnly /\ ROKeep /\ TasksKeep
    /\ cb # NotLoaded
    /\ status = "none" \/ task = "none"
    /\ n2vc_return(n2vc_callback(CbDocs, idx, status, "msg", task), fault)
    /\ UNCHANGED <<db_vnfrs, db_vim_accounts, bus_ns, order_id, ro_stuck, wf>>

\* the documents of every shape, and on each of them one call of every kind
NextCallback ==
    \/ \E nsr \in NsrShapes, op \in OpShapes : n2vc_bound(nsr, op)
    \/ \E idx \in CbIndexes, status \in VcaStatuses \cup {"none"},
          task \in {"none", "cancelled", "exc", "ok"}, fault \in DbFaults :
          cb_out = NoOut /\ n2vc_called(idx, status, task, fault)

SpecCallback == Init /\ [][NextCallback]_vars

\* ------------------------------------------------------------------------
\* Re-runs of ns_instantiate while the VIM account changes
\* ------------------------------------------------------------------------
\* a vim_edit of the VIM account of the ns fails at RO: lines 299-305 leave the
\* account with operationalState ERROR
vim_edit_fails ==
    /\ NsOnly /\ ROKeep /\ TasksKeep
    /\ WfIdle
    /\ db_nsrs.exists
    /\ db_vim_accounts = EnabledVim
    /\ db_vim_accounts' = Failed(db_vim_accounts, "Editing vim at RO", ROExc("500", "edit vim"))
    /\ UNCHANGED <<db_nsrs, db_nslcmops, db_vnfrs, bus_ns, order_id, ro_stuck, wf, cb,
                   cb_out>>

NextRerun ==
    \/ nbi_new_ns("nsd0", [vnf |-> FALSE], EnabledVim)
    \/ nbi_command("instantiate", FALSE)
    \/ vim_edit_fails
    \/ ns_read
    \/ ns_instantiate_1
    \/ ns_instantiate_vnfd_list
    \/ ns_instantiate_vnfd_create
    \/ ns_instantiate_nsd_list
    \/ ns_instantiate_nsd_create
    \/ ns_instantiate_ns_show
    \/ ns_instantiate_ns_delete
    \/ ns_instantiate_ns_create
    \/ ns_instantiate_poll
    \/ ns_instantiate_sleep
    \/ ns_instantiate_login

SpecRerun == Init /\ [][NextRerun]_vars

\* ------------------------------------------------------------------------
\* Claims on the registry and on cancel_tasks
\* ------------------------------------------------------------------------
CancellingRecords == {rec \in ExternalRecords : IsCancelling(rec)}

\* C1: after the dispatch loop has handled ns/terminate, vim_account/delete or
\* sdn/delete for an entity, registry[topic][id] holds exactly one order entry with
\* exactly one task, the workflow spawned by that command, whatever it held before.
C1_OnlyNewWorkflow ==
    [][\A rec \in CancellingRecords :
          ReadExternal(rec) =>
              LET reg == RegistryOf(rec.topic)'
                  new == Len(tasks')
              IN /\ new = Len(tasks) + 1
                 /\ Has(reg, rec.id)
                 /\ Cardinality(DOMAIN reg[rec.id]) = 1
                 /\ \A k \in DOMAIN reg[rec.id] :
                        /\ DOMAIN reg[rec.id][k] = {WorkflowName(rec)}
                        /\ reg[rec.id][k][WorkflowName(rec)] = new
                 /\ tasks'[new] = NewTask(rec.topic, rec.id, WorkflowName(rec))]_vars

\* a terminate/delete workflow is the only entry of an entity that had an older,
\* cancelled workflow
C1_Witness ==
    \E t1, t2 \in DOMAIN tasks :
        /\ t1 < t2
        /\ tasks[t1].topic = tasks[t2].topic /\ tasks[t1].ent = tasks[t2].ent
        /\ tasks[t1].cancelReq
        /\ tasks[t2].name \in {"ns_terminate", "vim_delete", "sdn_delete"}
        /\ HandlesOf(RegistryOf(tasks[t2].topic), tasks[t2].ent) = {t2}

\* C2: on ns/terminate, vim_account/delete and sdn/delete, cancellation is requested on
\* every live task that earlier commands registered for that entity, before the new
\* workflow is spawned (which is therefore not cancelled); no other command cancels.
C2_CancelsAllPrior ==
    [][\A rec \in ExternalRecords :
          ReadExternal(rec) =>
              IF IsCancelling(rec)
              THEN /\ \A t \in DOMAIN tasks :
                          (tasks[t].topic = rec.topic /\ tasks[t].ent = rec.id
                           /\ ~tasks[t].done) => tasks'[t].cancelReq
                   /\ ~tasks'[Len(tasks')].cancelReq
              ELSE \A t \in DOMAIN tasks : tasks'[t].cancelReq = tasks[t].cancelReq]_vars

\* what cancel_tasks does reach: the handles the registry still holds for the entity
HeldAreCancelled ==
    [][\A rec \in ExternalRecords :
          ReadExternal(rec) =>
              IF IsCancelling(rec)
              THEN /\ \A t \in HandlesOf(RegistryOf(rec.topic), rec.id) : tasks'[t].cancelReq
                   /\ ~tasks'[Len(tasks')].cancelReq
              ELSE \A t \in DOMAIN tasks : tasks'[t].cancelReq = tasks[t].cancelReq]_vars

\* ------------------------------------------------------------------------
\* Claims on the prober and on the bus errors
\* ------------------------------------------------------------------------
\* C7 as stated: once pings_not_received exceeds 10 the prober iteration under way
\* ends with the process terminated: the counter leaves the excess no other way.
C7_AlwaysRaises ==
    [][(proc = "running" /\ pings_not_received > PingLimit) =>
          \/ proc' = "dead"
          \/ pings_not_received' > PingLimit /\ pg_pc' = pg_pc]_vars

\* C7 amended: when the sleep of a prober iteration ends with pings_not_received still
\* above 10, kafka_ping raises and the process terminates in that step; no iteration
\* starts with the counter above 10.
C7_RaisesAtCheck ==
    [][/\ (proc = "running" /\ pg_pc = "sleep" /\ pg_pc' # "sleep"
           /\ pings_not_received > PingLimit) => (pg_pc' = "broken" /\ proc' = "dead")
       /\ pg_pc' \in {"write", "wrote", "errsleep"} => pings_not_received' <= PingLimit]_vars

C7_Witness == pg_pc = "broken" /\ proc = "dead" /\ pings_not_received > PingLimit

\* C10: a fibre gives up on bus errors only with its threshold exhausted: 30
\* consecutive errors before the first successful read or publish, 8 afterwards.
C10_Thresholds ==
    /\ rd_pc = "raised" => rd_errors = (IF rd_first THEN StartupErrors ELSE SteadyErrors)
    /\ pg_pc = "raised" => pg_errors = (IF pg_first THEN StartupErrors ELSE SteadyErrors)

\* ------------------------------------------------------------------------
\* Claims on the VIM and SDN workflows
\* ------------------------------------------------------------------------
\* the vim_create that has ended after RO.create("vim") returned a uuid and
\* RO.attach_datacenter was accepted
VimCreated ==
    /\ v_kind = "vim_create"
    /\ v_pc = "done"
    /\ "attach_datacenter" \in v_called
    /\ v_exc = NoExc

\* C8: after a vim_create whose RO.create("vim") returned a uuid and whose
\* attach_datacenter was accepted, the vim_accounts document has
\* _admin.operationalState ENABLED and _admin.deployed.RO is the uuid RO
\* returned, which is not None.
C8_CreatedIsEnabled ==
    VimCreated =>
        /\ db_vim_accounts.exists
        /\ db_vim_accounts.operationalState = "ENABLED"
        /\ db_vim_accounts.RO # NoUuid
        /\ db_vim_accounts.RO = v_doc.RO
        /\ db_vim_accounts.RO \in 1..ro_count

C8_Witness ==
    /\ VimCreated
    /\ v_ret = "returned"
    /\ db_vim_accounts.exists
    /\ db_vim_accounts.RO \in ro_att

\* ------------------------------------------------------------------------
\* Claims on the NS workflows
\* ------------------------------------------------------------------------
\* the workflow has made the call
Called(name) == \E i \in DOMAIN wf.called : wf.called[i] = name

\* the ns_instantiate that has ended on its success path
InstantiateSucceeded ==
    /\ wf.kind = "ns_instantiate"
    /\ wf.pc = "done"
    /\ wf.exc = NoExc
    /\ wf.ret = "returned"

\* C3: after any ns_instantiate that ends on its success path, re-runs that
\* reuse what RO already holds included, the nsrs document has _admin.nsState
\* INSTANTIATED, operational-status "running" and
\* _admin.deployed.RO.nsr_status "ACTIVE".
C3_SuccessIsRunning ==
    InstantiateSucceeded =>
        /\ db_nsrs.exists
        /\ db_nsrs.nsState = "INSTANTIATED"
        /\ db_nsrs.operational = "running"
        /\ db_nsrs.deployed.present
        /\ db_nsrs.deployed.nsr_status = "ACTIVE"

\* a successful re-run that found its ns at RO and created nothing there
C3_Witness ==
    /\ InstantiateSucceeded
    /\ Called("show ns")
    /\ ~Called("create ns")
    /\ ~Called("create nsd")
    /\ db_nsrs.exists
    /\ db_nsrs.deployed.nsr_id \in DOMAIN ro_ns

\* the ns_terminate that has ended, its nslcmops document loaded
TerminateEnded ==
    /\ wf.kind = "ns_terminate"
    /\ wf.pc = "done"
    /\ wf.lcmop # NotLoaded

\* the ns_terminate that went past the NOT_INSTANTIATED check of line 1031 and
\* reached the outcome selection of line 1145 with no exception and an empty
\* failed_detail
TerminateClean ==
    /\ TerminateEnded
    /\ wf.nsr # NotLoaded
    /\ wf.nsr.nsState # "NOT_INSTANTIATED"
    /\ wf.exc = NoExc
    /\ wf.failed = <<>>

\* the nsrs and nslcmops documents of a completed termination
TerminatedDocs ==
    /\ db_nsrs.exists
    /\ db_nsrs.nsState = "NOT_INSTANTIATED"
    /\ db_nsrs.operational = "terminated"
    /\ Has(db_nslcmops, wf.op)
    /\ db_nslcmops[wf.op].operationState = "COMPLETED"

\* C4 as stated: after any ns_terminate without autoremove in which nothing
\* produced a failed-detail, the nsrs document has nsState NOT_INSTANTIATED and
\* operational-status "terminated", and the nslcmops document is COMPLETED.
C4_Original ==
    (TerminateEnded /\ ~wf.lcmop.autoremove /\ wf.failed = <<>>) => TerminatedDocs

\* C4: after an ns_terminate without autoremove that went past the
\* NOT_INSTANTIATED check and reached the outcome selection with no exception
\* and no failed-detail, the nsrs document has nsState NOT_INSTANTIATED and
\* operational-status "terminated", and the nslcmops document is COMPLETED.
C4_CleanIsTerminated ==
    (TerminateClean /\ ~wf.lcmop.autoremove) => TerminatedDocs

\* a clean termination that deleted the ns at RO and removed a charm
C4_Witness ==
    /\ TerminateClean
    /\ ~wf.lcmop.autoremove
    /\ Called("delete ns")
    /\ Called("RemoveCharms")
    /\ wf.ret = "returned"
    /\ db_nsrs.exists
    /\ db_nsrs.deployed.nsr_id = NoUuid

\* the three collections hold nothing of the nsr
DocsAbsent ==
    /\ ~db_nsrs.exists
    /\ db_nslcmops = EmptyMap
    /\ db_vnfrs = EmptyMap

\* C5 as stated: after an ns_terminate with autoremove and no failed-detail the
\* nsrs document and every nslcmops and vnfrs document of the nsr are absent.
C5_Original ==
    (TerminateEnded /\ wf.lcmop.autoremove /\ wf.failed = <<>>) => DocsAbsent

\* C5: after an ns_terminate with autoremove that went past the
\* NOT_INSTANTIATED check and reached the outcome selection with no exception
\* and no failed-detail, the nsrs document and every nslcmops and vnfrs document
\* of the nsr are absent, the finally block having rewritten none of them.
C5_CleanIsRemoved ==
    (TerminateClean /\ wf.lcmop.autoremove) => DocsAbsent

\* a clean termination with autoremove, after which RO holds nothing either
C5_Witness ==
    /\ TerminateClean
    /\ wf.lcmop.autoremove
    /\ Called("delete ns")
    /\ Called("delete nsd")
    /\ ro_ns = EmptyMap
    /\ ro_nsd = {}
    /\ DocsAbsent

\* C6: no workflow ends with the HTTP 404 of an RO.delete or of
\* RO.detach_datacenter as the exception it failed with.
C6_NotFoundNeverFails ==
    /\ wf.pc = "done" =>
         wf.exc \notin {ROExc("404", "delete " \o k) : k \in {"ns", "nsd", "A", "B", "C"}}
    /\ v_pc = "done" =>
         v_exc \notin {ROExc("404", c) : c \in {"detach_datacenter", "delete vim", "delete sdn"}}

\* C9: an NS workflow that has ended has removed the documents of its nsr, or
\* has left its nslcmops document COMPLETED or FAILED, or (ns_instantiate) has
\* left the nsrs document with operational-status "running".
C9_EndsWithARecord ==
    (wf.pc = "done" /\ db_nsrs.exists) =>
        /\ Has(db_nslcmops, wf.op)
        /\ \/ db_nslcmops[wf.op].operationState \in {"COMPLETED", "FAILED"}
           \/ wf.kind = "ns_instantiate" /\ db_nsrs.operational = "running"

\* C16: a vim_create whose config.sdn-controller names an sdns document with no
\* _admin.deployed.RO ends at once with the vim_accounts document in
\* operationalState ERROR, detailed-status beginning "ERROR Getting
\* sdn-controller-id", and with no call made to RO.
C16_SdnNotDeployed ==
    [][(/\ \E content \in CreateContents : vim_create_1(content)
        /\ v_in'.sdn # "none"
        /\ db_vim_accounts.exists
        /\ db_sdns.exists
        /\ ~HasRO(db_sdns))
       => /\ v_pc' = "done"
          /\ db_vim_accounts'.operationalState = "ERROR"
          /\ SubSeq(db_vim_accounts'.detailed, 1, 2)
               = <<"ERROR", "Getting sdn-controller-id from db">>
          /\ v_called' = {}
          /\ ROSame]_vars

C16_Witness ==
    /\ v_kind = "vim_create"
    /\ v_pc = "done"
    /\ v_in.sdn = "s1"
    /\ v_exc = LcmExc("sdn-controller is not available")
    /\ db_sdns.exists
    /\ ~HasRO(db_sdns)
    /\ db_vim_accounts.exists
    /\ db_vim_accounts.operationalState = "ERROR"
    /\ v_called = {}

\* the sleep of the poll loop ends with the 7200 s used up
BudgetExhausted ==
    /\ ns_instantiate_sleep
    /\ wf.timeout <= PollSleep

\* C15: when RO has reported BUILD on every poll until the 7200 s budget,
\* decremented 5 s per iteration, is used up, ns_instantiate ends with the
\* nslcmops document FAILED and its detailed-status holding "Timeout waiting ns
\* to be ready", the nsrs document with operational-status "failed", and
\* neither n2vc.login nor DeployCharms has been invoked.
C15_TimeoutFails ==
    [][BudgetExhausted
       => /\ wf'.pc = "done"
          /\ db_nslcmops'[wf.op].operationState = "FAILED"
          /\ db_nslcmops'[wf.op].detailed
               = <<"FAILED", "Waiting ns ready at RO", "Timeout waiting ns to be ready">>
          /\ db_nsrs'.operational = "failed"
          /\ \A i \in DOMAIN wf'.called : wf'.called[i] # "login"
          /\ \A t \in DOMAIN tasks' : tasks'[t].name = "ns_instantiate"]_vars

\* a run that was told BUILD 1440 times and ended on the timeout
C15_Witness ==
    /\ ro_stuck
    /\ wf.kind = "ns_instantiate"
    /\ wf.pc = "done"
    /\ wf.exc = ROExc("400", "Timeout waiting ns to be ready")
    /\ db_nsrs.exists
    /\ db_nsrs.operational = "failed"
    /\ db_nsrs.deployed.nsr_status = "BUILD"

\* the handles of the tasks the step has started
Started == (Len(tasks) + 1)..Len(tasks')

\* C18: when ns_instantiate has deployed its charms, _admin.deployed.VCA[idx]
\* holds an entry iff a DeployCharms task was started for the member-vnf-index
\* idx, and every task started is held by the registry under
\* lcm_ns_tasks[nsr_id][nslcmop_id]["create_charm:<idx>"].
C18_EntriesAndTasks ==
    [][(ns_instantiate_login /\ wf'.exc = NoExc)
       => /\ \A idx \in Indexes(wf.nsr.nsd) :
               (Has(db_nsrs'.deployed.VCA, idx) /\ db_nsrs'.deployed.VCA[idx].present)
               <=> \E t \in Started : tasks'[t].name = "create_charm:" \o idx
          /\ \A t \in Started :
               /\ Has(lcm_ns_tasks'["n1"][wf.op], tasks'[t].name)
               /\ lcm_ns_tasks'["n1"][wf.op][tasks'[t].name] = t]_vars

\* ns_terminate starts on an nsr whose nsState is NOT_INSTANTIATED
TerminateNotInstantiated ==
    /\ ns_terminate_1
    /\ db_nsrs.exists
    /\ db_nsrs.deployed.present
    /\ db_nsrs.nsState = "NOT_INSTANTIATED"

\* C19: ns_terminate on an nsr whose _admin.nsState is NOT_INSTANTIATED returns
\* at once: the task ends without raising, no call goes to RO or to the VCA,
\* and the nsrs and nslcmops documents are left as they were.
C19_ReturnsAtOnce ==
    [][TerminateNotInstantiated
       => /\ wf'.pc = "done"
          /\ wf'.ret = "returned"
          /\ wf'.called = <<>>
          /\ UNCHANGED <<db_nsrs, db_nslcmops, tasks, ro_vnfd, ro_nsd, ro_ns>>]_vars

\* NS before NSD before VNFDs
Rank(kind) == IF kind = "ns" THEN 1 ELSE IF kind = "nsd" THEN 2 ELSE 3

\* the RO id the deployed record holds for the artifact of the deletion d
IdOf(lcm, d) ==
    IF d.kind = "ns" THEN lcm.nsr_id
    ELSE IF d.kind = "nsd" THEN lcm.nsd_id
    ELSE lcm.vnfd_id[d.key]

\* the failed_detail holds an entry for the deletion d
FailedFor(d) ==
    \E i \in DOMAIN wf.failed : wf.failed[i] \in {FailedDetail(d, "409"), FailedDetail(d, "500")}

\* the outcome of an ns_terminate that ended with a failed-detail: the nsrs
\* document failed, the nslcmops document FAILED, and _admin.deployed written
\* back with the id of each artifact kept where its deletion failed and nulled
\* where it went through or met HTTP 404
FailedOutcome ==
    /\ db_nsrs.exists
    /\ db_nsrs.operational = "failed"
    /\ SubSeq(db_nsrs.detailed, 1, 1) = <<"Deletion errors">>
    /\ db_nslcmops[wf.op].operationState = "FAILED"
    /\ db_nsrs.deployed = wf.nsr_lcm
    /\ LET ds == Deletions(wf.nsr.deployed, wf.nsr.nsd) IN
       \A i \in DOMAIN ds :
           IdOf(db_nsrs.deployed, ds[i])
             = IF FailedFor(ds[i]) THEN ds[i].id ELSE NoUuid

\* C20: in ns_terminate an RO error that is not HTTP 404 on the deletion of an
\* artifact adds a failed-detail and does not abort: the artifacts left are
\* still attempted, in the order NS, NSD, VNFDs; and when the run ends with a
\* failed-detail the nsrs document has operational-status "failed", the
\* nslcmops document is FAILED and _admin.deployed is written back with only
\* the ids of the deleted artifacts nulled.
C20_FailedDetailGoesOn ==
    /\ []((/\ wf.kind = "ns_terminate"
            /\ wf.pc = "done"
            /\ wf.failed # <<>>
            /\ wf.exc.type # "Exception")
           => FailedOutcome)
    /\ [][(wf.pc = "RO.delete" /\ ns_terminate_delete) =>
            LET d == Head(wf.todo) IN
            /\ \A i \in DOMAIN wf.todo : Rank(d.kind) <= Rank(wf.todo[i].kind)
            /\ \/ wf'.pc = "done" /\ wf'.exc = ROExc("other", "delete " \o d.key)
               \/ /\ wf'.exc = NoExc
                  /\ wf'.todo = Tail(wf.todo)
                  /\ \/ wf'.failed = wf.failed /\ wf'.nsr_lcm = Nulled(wf.nsr_lcm, d)
                     \/ /\ wf'.failed \in {Append(wf.failed, FailedDetail(d, o)) :
                                             o \in {"409", "500"}}
                        /\ wf'.nsr_lcm = wf.nsr_lcm
                  /\ wf'.pc = IF Tail(wf.todo) # <<>> THEN "RO.delete"
                              ELSE IF DOMAIN wf.vca # {} THEN "asyncio.wait"
                              ELSE "done"]_vars

\* a termination in which RO refused to delete the ns with HTTP 409, the nsd was
\* deleted all the same, and the outcome is failed with nsr_id kept
C20_Witness ==
    /\ TerminateEnded
    /\ wf.nsr # NotLoaded
    /\ wf.nsr.deployed.present
    /\ wf.failed = <<FailedDetail([kind |-> "ns", id |-> wf.nsr.deployed.nsr_id, key |-> "ns"],
                                  "409")>>
    /\ Called("delete nsd")
    /\ Called("delete A")
    /\ FailedOutcome
    /\ db_nsrs.deployed.nsr_id # NoUuid
    /\ db_nsrs.deployed.nsd_id = NoUuid
    /\ db_nsrs.nsState = "INSTANTIATED"

\* RO holds at most one vnfd of each id, one nsd and one ns for the nsr
RoHoldsOneEach ==
    /\ Cardinality(DOMAIN ro_ns) <= 1
    /\ Cardinality(ro_nsd) <= 1
    /\ \A u, v \in DOMAIN ro_vnfd : ro_vnfd[u] = ro_vnfd[v] => u = v

\* C14: an ns_instantiate run again on the same nsr after an earlier run ended
\* part-way reuses the vnfds, the nsd and the ns RO already holds: RO.create
\* answers only for an artifact RO does not hold, so RO never holds two vnfds
\* of one id, two nsds or two nss for the nsr.
C14_NoDuplicates ==
    /\ []RoHoldsOneEach
    /\ [][(wf.kind = "ns_instantiate" /\ ro_uuid' # ro_uuid)
          => /\ wf.pc = "RO.create ns" => DOMAIN ro_ns = {}
             /\ wf.pc = "RO.create nsd" => ro_nsd = {}
             /\ wf.pc = "RO.create vnfd" => \A u \in DOMAIN ro_vnfd : ro_vnfd[u] # wf.cur]_vars

\* ------------------------------------------------------------------------
\* Claims on the callbacks of the charms and on ns_action
\* ------------------------------------------------------------------------
\* a callback has changed the status of a charm and has gone through the aggregation
Aggregated ==
    /\ cb # NotLoaded /\ cb' # NotLoaded
    /\ cb'.nsr.deployed.VCA # cb.nsr.deployed.VCA

SomeError(vca) ==
    \E i \in DOMAIN vca : vca[i].present /\ vca[i].operational \in {"error", "blocked"}

\* C11: when the aggregation of n2vc_callback finds a charm in "error" or "blocked",
\* also after a DeployCharms task has ended with an exception, the nsrs document
\* gets config-status "failed" and a detailed-status that starts with
\* "fail configuring ", and the nslcmops document gets FAILED_TEMP.
C11_ErrorIsFailed ==
    [][(Aggregated /\ SomeError(cb'.nsr.deployed.VCA)) =>
          /\ db_nsrs'.config = "failed"
          /\ Head(db_nsrs'.detailed) = "fail configuring "
          /\ db_nslcmops'[cb.id].operationState = "FAILED_TEMP"]_vars

\* the loop runs the done callback of a DeployCharms task that was cancelled
CancelledDone ==
    \E h \in DOMAIN tasks, idx \in ActionIndexes : tasks[h].cancelReq /\ n2vc_done(h, idx)

\* C12: the completion callback of a cancelled task returns at once: db_nsr and
\* db_nslcmop stay as they are and nothing is written to the database.
C12_CancelledReturns ==
    [][CancelledDone => UNCHANGED <<cb, db_nsrs, db_nslcmops, db_vnfrs>>]_vars

C12_Witness ==
    \E h \in DOMAIN tasks :
        /\ \E idx \in ActionIndexes : CharmTask(h, idx)
        /\ tasks[h].cancelReq /\ tasks[h].done
        /\ wf.kind = "ns_terminate"

\* the charm the action names cannot run a primitive
Inactive(nsr, idx) ==
    \/ ~nsr.deployed.present
    \/ ~Has(nsr.deployed.VCA, idx)
    \/ ~nsr.deployed.VCA[idx].present
    \/ nsr.deployed.VCA[idx].operational # "active"

ActionRefused ==
    /\ ns_action_1
    /\ Has(db_nslcmops, wf.op) /\ db_nsrs.exists
    /\ Inactive(db_nsrs, db_nslcmops[wf.op].member_vnf_index)

\* ExecutePrimitive has been called only for a charm that was "active"
ExecutedOnActive ==
    (wf.kind = "ns_action" /\ Called("ExecutePrimitive")) =>
        ~Inactive(wf.nsr, wf.lcmop.member_vnf_index)

C13_CancelledWritesNoProgress ==
    [][ns_read_cancel =>
          /\ tasks'[wf.task].cancelReq
          /\ db_nsrs' # db_nsrs => db_nsrs'.operational = "failed"
          /\ db_nslcmops' # db_nslcmops => db_nslcmops'[wf.op].operationState = "FAILED"
          /\ (wf.kind = "ns_terminate" /\ wf'.ret = "returned"
              /\ wf'.nsr_update # Unbound /\ wf'.nsr_update # EmptyMap)
             => wf'.nsr_update.operational = "failed"]_vars

\* ------------------------------------------------------------------------
\* Claims on the order of the records and on the counter of the prober
\* ------------------------------------------------------------------------
SpawningRecords == {rec \in ExternalRecords : IsSpawning(rec) /\ ~IsEarly(rec)}

\* the slots of an entity in a registry
SlotsOf(reg, id) == IF Has(reg, id) THEN DOMAIN reg[id] ELSE {}

\* C24: every consumed record gets the next order_id, whatever its topic, and every
\* spawn is registered in a slot of its own, registry[topic][id][order_id]: a command
\* that does not cancel adds one slot to those of the entity and leaves the others
\* as they are, so two commands for one entity never share a slot.
C24_SlotPerOrder ==
    [][\A rec \in ExternalRecords :
          ReadExternal(rec) =>
              /\ order_id' = order_id + 1
              /\ (rec \in SpawningRecords /\ ~IsCancelling(rec)) =>
                    LET old == RegistryOf(rec.topic)
                        reg == RegistryOf(rec.topic)'
                    IN  /\ Cardinality(SlotsOf(reg, rec.id))
                             = Cardinality(SlotsOf(old, rec.id)) + 1
                        /\ \A k \in SlotsOf(old, rec.id) : reg[rec.id][k] = old[rec.id][k]
              /\ (rec \in SpawningRecords /\ rec.topic # "ns") =>
                    LET reg == RegistryOf(rec.topic)'
                    IN  /\ order_id' \in SlotsOf(reg, rec.id)
                        /\ reg[rec.id][order_id'] = (WorkflowName(rec) :> Len(tasks'))]_vars

\* C25: after publishing the self-ping the prober sleeps 5 s when pings_not_received
\* is above 0 and 120 s when the last ping has come back.
C25_SleepFollowsCounter ==
    [][PingCount =>
          pg_wait' = IF pings_not_received > 0 THEN WaitWarmup ELSE WaitSteady]_vars

\* the dispatch loop consumes a record that is a self-ping by its content
ReadsSelfPing ==
    \/ ReadSelfPing
    \/ \E rec \in AdminRecords : IsSelfPing(rec) /\ ReadExternal(rec)

\* C26: pings_not_received starts at 1, each iteration of the prober whose aiowrite
\* succeeded adds one to it, the dispatch loop sets it to 0 when it consumes an
\* (admin, ping) record from "lcm" to "lcm", and nothing else changes it.
C26_CounterMoves ==
    /\ pings_not_received = 1
    /\ [][/\ PingCount => pings_not_received' = pings_not_received + 1
          /\ ReadsSelfPing => pings_not_received' = 0
          /\ \A rec \in AdminRecords :
                (ReadExternal(rec) /\ ~IsSelfPing(rec)) => UNCHANGED pings_not_received
          /\ (pings_not_received' # pings_not_received) => (PingCount \/ ReadsSelfPing)
          /\ (PingPublish \/ PingWake \/ PingError \/ PingRetry)
                => UNCHANGED pings_not_received]_vars

\* a self-ping has come back, the next iteration has counted, and a ping that is not
\* a self-ping was read
C26_Witness ==
    /\ pg_received /\ pings_not_received = 2
    /\ order_id > 2

\* ------------------------------------------------------------------------
\* Claims on what the workflows record when they fail
\* ------------------------------------------------------------------------
\* the running workflow of the given kind ends in this step on an exception, with
\* the nsrs and the nslcmops documents loaded
EndsOnException(kind) ==
    /\ wf.kind = kind
    /\ wf.pc # "done"
    /\ wf'.pc = "done"
    /\ wf'.exc # NoExc
    /\ wf'.nsr # NotLoaded
    /\ wf'.lcmop # NotLoaded

C22_TerminateRecordsFailure ==
    [][(EndsOnException("ns_terminate") /\ wf'.ret = "returned")
       => /\ db_nslcmops'[wf.op].operationState = "FAILED"
          /\ db_nslcmops'[wf.op].detailed = <<"FAILED", wf'.step, wf'.exc.msg>>
          /\ db_nsrs'.exists
          /\ db_nsrs'.operational # "terminating"
          /\ db_nsrs'.detailed # <<"Deleting charms">>]_vars

\* ------------------------------------------------------------------------
\* Claims on the end of a successful ns_instantiate
\* ------------------------------------------------------------------------
\* ns_instantiate returns in this step without an exception
InstantiateReturns ==
    /\ wf.kind = "ns_instantiate"
    /\ wf.pc # "done"
    /\ wf'.pc = "done"
    /\ wf'.exc = NoExc
    /\ wf'.ret = "returned"

\* the charm tasks the step has created: one per deploy()
NumberToConfigure == Len(tasks') - Len(tasks)

\* C30: at the end of a successful ns_instantiate that deployed N > 0 charms, nsrs has
\* config-status "configuring", nslcmops has detailed-status "configuring: init: N"
\* and an operationState that is not terminal; with N = 0 nslcmops is COMPLETED and
\* nsrs has config-status "configured"; operational-status is "running" in both cases.
C30_SuccessOutcome ==
    [][InstantiateReturns
       => /\ db_nsrs'.operational = "running"
          /\ IF NumberToConfigure > 0
             THEN /\ db_nsrs'.config = "configuring"
                  /\ db_nslcmops'[wf.op].detailed
                       = <<"configuring: init: ", ToString(NumberToConfigure)>>
                  /\ db_nslcmops'[wf.op].operationState \notin {"COMPLETED", "FAILED"}
             ELSE /\ db_nsrs'.config = "configured"
                  /\ db_nslcmops'[wf.op].operationState = "COMPLETED"]_vars

\* a run that has deployed charms and left the operation open
C30_Witness ==
    /\ InstantiateSucceeded
    /\ db_nsrs.exists
    /\ db_nsrs.config = "configuring"
    /\ db_nslcmops[wf.op].operationState = "PROCESSING"
    /\ Len(db_nslcmops[wf.op].detailed) = 2
    /\ \E t \in DOMAIN tasks : tasks[t].name # "ns_instantiate"

\* ------------------------------------------------------------------------
\* Claims on the aggregation of the statuses of the charms
\* ------------------------------------------------------------------------
\* a change of status of a charm has been pushed and the aggregation has run over
\* the entries of VCA
StatusPushed ==
    /\ \E idx \in ActionIndexes, status \in VcaStatuses : n2vc_status(idx, status, "msg")
    /\ Aggregated
    /\ \A i \in DOMAIN cb'.nsr.deployed.VCA : cb'.nsr.deployed.VCA[i].present

\* how many entries of VCA have the status
CountOf(vca, status) == Cardinality({i \in DOMAIN vca : vca[i].operational = status})

\* the "status: count" item of a status that occurs
ItemOf(vca, status) ==
    IF CountOf(vca, status) > 0
    THEN <<status \o ": " \o ToString(CountOf(vca, status))>>
    ELSE <<>>

\* the sum of the counts over the statuses of StatusOrder
RECURSIVE SumOfCounts(_, _)
SumOfCounts(vca, order) ==
    IF order = <<>> THEN 0
    ELSE CountOf(vca, Head(order)) + SumOfCounts(vca, Tail(order))

\* C27: in the aggregation reached by a status push, if every entry of VCA is
\* "active" nsrs gets config-status "configured" and detailed-status "done" and
\* nslcmops becomes COMPLETED; if no entry is "error" or "blocked" and not all are
\* "active", config-status and detailed-status of nsrs become
\* "configuring: <status>: <count>, ..." with one count per status that occurs, the
\* counts add up to the number of entries, and operationState of nslcmops is left
\* as it was.
C27_StatusPushAggregates ==
    [][StatusPushed =>
          LET vca == cb'.nsr.deployed.VCA
              items == ItemOf(vca, "init") \o ItemOf(vca, "maintenance")
                       \o ItemOf(vca, "active") \o ItemOf(vca, "blocked")
                       \o ItemOf(vca, "error")
              cs == "configuring: " \o Join(items, ", ")
          IN  /\ (\A i \in DOMAIN vca : vca[i].operational = "active")
                    => /\ db_nsrs'.config = "configured"
                       /\ db_nsrs'.detailed = <<"done">>
                       /\ db_nslcmops'[cb.id].operationState = "COMPLETED"
              /\ (/\ \A i \in DOMAIN vca : vca[i].operational \notin {"error", "blocked"}
                  /\ \E i \in DOMAIN vca : vca[i].operational # "active")
                    => /\ db_nsrs'.config = cs
                       /\ db_nsrs'.detailed = <<cs>>
                       /\ SumOfCounts(vca, StatusOrder) = Cardinality(DOMAIN vca)
                       /\ db_nslcmops'[cb.id].operationState
                            = db_nslcmops[cb.id].operationState]_vars

\* two charms, one still in "init" and one pushed to "maintenance"
C27_Witness ==
    /\ cb # NotLoaded
    /\ db_nsrs.exists
    /\ db_nsrs.config = "configuring: init: 1, maintenance: 1"
    /\ db_nslcmops[cb.id].operationState = "PROCESSING"

\* ------------------------------------------------------------------------
\* Claims on what ns_action records for the task of ExecutePrimitive
\* ------------------------------------------------------------------------
\* C28: when ns_action finds the task of ExecutePrimitive cancelled after the wait,
\* the nslcmops document in the DB gets detailed-status "Task has been cancelled"
\* and operationState FAILED.
C28_CancelledIsRecorded ==
    [][ns_action_result("cancelled")
       => /\ db_nslcmops'[wf.op].detailed = <<"Task has been cancelled">>
          /\ db_nslcmops'[wf.op].operationState = "FAILED"]_vars

\* C29: when the task of ExecutePrimitive is done with an exception the nslcmops
\* document in the DB gets detailed-status str(exc) and operationState FAILED; done
\* without exception, "Done" and COMPLETED; still running after 300 s, the task is
\* cancelled and the document gets "timeout" and FAILED.
C29_ResultIsRecorded ==
    [][/\ ns_action_result("exc")
            => /\ db_nslcmops'[wf.op].detailed = <<"exc">>
               /\ db_nslcmops'[wf.op].operationState = "FAILED"
       /\ ns_action_result("ok")
            => /\ db_nslcmops'[wf.op].detailed = <<"Done">>
               /\ db_nslcmops'[wf.op].operationState = "COMPLETED"
       /\ ns_action_result("timeout")
            => /\ tasks'[wf.vca[wf.lcmop.member_vnf_index]].cancelReq
               /\ db_nslcmops'[wf.op].detailed = <<"timeout">>
               /\ db_nslcmops'[wf.op].operationState = "FAILED"]_vars

\* ------------------------------------------------------------------------
\* Claims on the exceptions of n2vc_callback
\* ------------------------------------------------------------------------
\* C23: n2vc_callback never lets an exception out: whatever is raised while it
\* classifies the task, aggregates the statuses or saves the documents is swallowed,
\* for every task state, status and shape of the documents.
C23_NeverPropagates ==
    /\ [](cb_out.ret # "raised")
    /\ [][\A idx \in CbIndexes, status \in VcaStatuses \cup {"none"},
             task \in {"none", "cancelled", "exc", "ok"}, fault \in DbFaults :
             n2vc_called(idx, status, task, fault) => cb_out'.ret = "returned"]_vars

\* a call on a VCA with an entry that is None has raised TypeError inside and returned
C23_Witness ==
    /\ cb # NotLoaded
    /\ cb_out = [ret |-> "returned", caught |-> "TypeError"]
    /\ cb.nsr # NotLoaded
    /\ cb.nsr.deployed.present
    /\ \E i \in DOMAIN cb.nsr.deployed.VCA : ~cb.nsr.deployed.VCA[i].present

\* ------------------------------------------------------------------------
\* Claims on how long the registry keeps its entries and on what cancel_tasks touches
\* ------------------------------------------------------------------------
Topics == {"ns", "vim_account", "sdn"}

\* the slot k of the entity id is in the registry of the topic after the step as it
\* was before
SlotKept(topic, id, k) ==
    LET reg == RegistryOf(topic)' IN
    /\ Has(reg, id)
    /\ k \in DOMAIN reg[id]
    /\ reg[id][k] = RegistryOf(topic)[id][k]

\* the record makes the dispatch loop write the slot k of the entity id: cancel_tasks
\* empties the entity, and on the ns topic the slot is the one of the nslcmop
Rewrites(rec, topic, id, k) ==
    /\ IsSpawning(rec) /\ ~IsEarly(rec)
    /\ rec.topic = topic /\ rec.id = id
    /\ IsCancelling(rec) \/ (topic = "ns" /\ k = rec.op)

\* C33 as stated: once a workflow is registered under registry[topic][id], neither
\* its completion nor any later step of the dispatch loop removes or replaces the
\* entry.
C33_Original ==
    [][\A topic \in Topics : \A id \in DOMAIN RegistryOf(topic) :
          \A k \in DOMAIN RegistryOf(topic)[id] : SlotKept(topic, id, k)]_vars

\* C33: the completion of a workflow leaves the three registries as they are; a step
\* of the dispatch loop keeps every entry but those of the entity of a terminate or
\* delete, which cancel_tasks removes, and on the ns topic the entry of the nslcmop
\* of the command it registers.
C33_RetainedUntilCancelled ==
    [][/\ (\E t \in DOMAIN tasks : TaskDone(t))
            => UNCHANGED <<lcm_ns_tasks, lcm_vim_tasks, lcm_sdn_tasks>>
       /\ \A rec \in ExternalRecords :
            ReadExternal(rec) =>
                \A topic \in Topics : \A id \in DOMAIN RegistryOf(topic) :
                    \A k \in DOMAIN RegistryOf(topic)[id] :
                        ~Rewrites(rec, topic, id, k) => SlotKept(topic, id, k)]_vars

\* a workflow has completed, its entry is still there, and a later command of the
\* same entity has its own entry next to it
C33_Witness ==
    \E t \in DOMAIN tasks :
        /\ tasks[t].done
        /\ t \in HandlesOf(RegistryOf(tasks[t].topic), tasks[t].ent)
        /\ Cardinality(DOMAIN RegistryOf(tasks[t].topic)[tasks[t].ent]) > 1

\* C37: cancel_tasks(topic, id) changes registry[topic][id] only: the entries of the
\* other entities of the topic and the registries of the other two topics stay as
\* they are, and no task of another entity gets a cancellation request.
C37_CancelTouchesOneEntity ==
    [][\A rec \in CancellingRecords :
          ReadExternal(rec) =>
              /\ \A topic \in Topics : \A id \in DOMAIN RegistryOf(topic) :
                    (topic # rec.topic \/ id # rec.id)
                        => /\ Has(RegistryOf(topic)', id)
                           /\ RegistryOf(topic)'[id] = RegistryOf(topic)[id]
              /\ \A t \in DOMAIN tasks :
                    (tasks[t].topic # rec.topic \/ tasks[t].ent # rec.id)
                        => tasks'[t] = tasks[t]]_vars

\* a delete or terminate was read while a task of another entity of the same topic
\* was registered, and that task has no cancellation request
C37_Witness ==
    \E t1, t2, t3 \in DOMAIN tasks :
        /\ t1 < t2 /\ t1 < t3
        /\ tasks[t1].topic = tasks[t2].topic /\ tasks[t1].ent = tasks[t2].ent
        /\ tasks[t1].cancelReq
        /\ tasks[t2].name \in {"ns_terminate", "vim_delete", "sdn_delete"}
        /\ tasks[t3].topic = tasks[t1].topic /\ tasks[t3].ent # tasks[t1].ent
        /\ ~tasks[t3].cancelReq
        /\ t3 \in HandlesOf(RegistryOf(tasks[t3].topic), tasks[t3].ent)

\* ------------------------------------------------------------------------
\* Claims on the poll loop of ns_instantiate
\* ------------------------------------------------------------------------
\* C31: in the poll loop an ACTIVE ns whose get_ns_vnf_info raises HTTP 409 leads to
\* the sleep of 5 s and to another poll charged to the same budget, never to a
\* failure; any other exception of get_ns_vnf_info and any ERROR status end the
\* workflow as failed; the loop is left for the next phase only with the status
\* ACTIVE and the IP info of the vnfs recorded.
C31_PollLoop ==
    [][/\ ns_instantiate_poll =>
            /\ wf'.exc # ROExc("409", "get_ns_vnf_info")
            /\ wf'.pc \in {"sleep", "done", "n2vc.login"}
            /\ wf'.pc = "sleep"
                 => /\ wf'.exc = NoExc
                    /\ wf'.timeout = wf.timeout
                    /\ wf'.nsr.deployed.nsr_status \in {"BUILD", "ACTIVE"}
            /\ wf'.pc = "done"
                 => /\ wf'.exc # NoExc
                    /\ db_nsrs'.operational = "failed"
                    /\ db_nslcmops'[wf.op].operationState = "FAILED"
            /\ wf'.nsr.deployed.nsr_status = "ERROR" => wf'.pc = "done"
            /\ wf'.pc = "n2vc.login"
                 => /\ wf'.nsr.deployed.nsr_status = "ACTIVE"
                    /\ wf'.nsr.deployed.nsr_ip = Indexes(wf.nsr.nsd)
                    /\ wf'.nsr.deployed.nsr_ip # {}
       /\ ns_instantiate_sleep =>
            /\ wf'.timeout = wf.timeout - 5
            /\ wf'.timeout > 0 => wf'.pc = "RO.show ns poll" /\ wf'.exc = NoExc
            /\ wf'.timeout <= 0 => wf'.pc = "done" /\ wf'.exc # NoExc]_vars

\* the ns is ACTIVE, get_ns_vnf_info has raised 409 and the loop sleeps, after a
\* sleep it has already charged to the budget
C31_Witness ==
    /\ wf.kind = "ns_instantiate"
    /\ wf.pc = "sleep"
    /\ wf.exc = NoExc
    /\ wf.nsr.deployed.nsr_status = "ACTIVE"
    /\ wf.step = "Waiting for management IP address from VIM"
    /\ wf.timeout = DeploymentTimeout - PollSleep

\* ------------------------------------------------------------------------
\* Claims on the VIM account of ns_instantiate
\* ------------------------------------------------------------------------
\* the VIM account instantiate_params refers to is not ENABLED
VimNotEnabled == db_vim_accounts.exists /\ db_vim_accounts.operationalState # "ENABLED"

\* the running ns_instantiate ends in this step
InstantiateEnds == wf.kind = "ns_instantiate" /\ wf.pc # "done" /\ wf'.pc = "done"

\* RO.create("ns") is issued in this step
CreatesNs == wf.pc # "RO.create ns" /\ wf'.pc = "RO.create ns"

Remaining(dep) ==
    (IF dep.nsr_id # NoUuid THEN {<<"ns", dep.nsr_id>>} ELSE {})
    \cup (IF dep.nsd_id # NoUuid THEN {<<"nsd", dep.nsd_id>>} ELSE {})
    \cup {<<k, dep.vnfd_id[k]>> : k \in {v \in DOMAIN dep.vnfd_id : dep.vnfd_id[v] # NoUuid}}

\* the nsrs document is as an ns_terminate with failed-details has left it
AfterFailedTerminate ==
    /\ db_nsrs.exists
    /\ db_nsrs.deployed.present
    /\ db_nsrs.operational = "failed"
    /\ SubSeq(db_nsrs.detailed, 1, 1) = <<"Deletion errors">>

\* C40: an ns_terminate that ends with a failed-detail leaves _admin.nsState as it
\* was (INSTANTIATED), so the next terminate of the ns is not cut short by the
\* NOT_INSTANTIATED check and attempts the deletion of exactly the artifacts that
\* still have an id in _admin.deployed.
C40_FailedTerminateIsRetried ==
    /\ []((wf.kind = "ns_terminate" /\ wf.pc = "done" /\ wf.failed # <<>>)
            => /\ db_nsrs.exists
               /\ db_nsrs.nsState = "INSTANTIATED")
    /\ [][(AfterFailedTerminate /\ ns_terminate_1) =>
            /\ wf'.nsr_update # Unbound
            /\ wf'.nsr_lcm = db_nsrs.deployed
            /\ {<<wf'.todo[i].key, wf'.todo[i].id>> : i \in DOMAIN wf'.todo}
                 = Remaining(db_nsrs.deployed)
            /\ Len(wf'.todo) = Cardinality(Remaining(db_nsrs.deployed))
            /\ wf'.todo # <<>> => wf'.pc = "RO.delete"]_vars

\* the second terminate of an ns whose first terminate deleted the ns at RO and was
\* refused the nsd: it is deleting the nsd
C40_Witness ==
    /\ wf.kind = "ns_terminate"
    /\ wf.pc = "RO.delete"
    /\ wf.nsr # NotLoaded
    /\ wf.nsr.nsState = "INSTANTIATED"
    /\ \E o \in DOMAIN db_nslcmops :
          /\ o # wf.op
          /\ db_nslcmops[o].type = "terminate"
          /\ db_nslcmops[o].operationState = "FAILED"
          /\ Len(db_nslcmops[o].detailed) = 1
    /\ wf.nsr_lcm.nsr_id = NoUuid
    /\ wf.nsr_lcm.nsd_id # NoUuid
    /\ Head(wf.todo).kind = "nsd"

\* ------------------------------------------------------------------------
\* C32: a deletion that RO refuses
\* ------------------------------------------------------------------------
\* the deletion workflow kind ends in this step because the RO call it awaited
\* raised something its inner handler does not swallow
RaisedAtRO(kind) ==
    /\ v_kind = kind
    /\ v_pc \in {"RO.detach_datacenter", "RO.delete"}
    /\ v_pc' = "done"
    /\ v_exc'.type \in {"ROClientException", "Exception"}

\* C32 as stated: vim_delete and sdn_delete remove the row even when the RO
\* detach or deletion before it raised an error other than 404.
C32_Original ==
    [][/\ RaisedAtRO("vim_delete") => ~db_vim_accounts'.exists
       /\ RaisedAtRO("sdn_delete") => ~db_sdns'.exists]_vars

\* C32 (amended): when RO.detach_datacenter or RO.delete raises anything but a
\* 404 ROClientException, vim_delete and sdn_delete do not reach del_one: the
\* row stays, with operationalState ERROR and the step and the exception in
\* its detailed-status, and RO keeps what it held; a row is removed by a
\* deletion workflow only when every RO call it made answered ok or 404, so
\* that RO no longer holds the item of a row that a deletion removed.
C32_RefusedDeletionKeepsRow ==
    /\ [][RaisedAtRO("vim_delete") =>
            /\ v_exc'.code # "404"
            /\ db_vim_accounts'.exists = db_vim_accounts.exists
            /\ db_vim_accounts.exists =>
                 /\ db_vim_accounts' = Failed(v_doc, v_step, v_exc')
                 /\ db_vim_accounts'.operationalState = "ERROR"
                 /\ db_vim_accounts'.RO = v_doc.RO
            /\ ro_vim' = ro_vim]_vars
    /\ [][RaisedAtRO("sdn_delete") =>
            /\ v_exc'.code # "404"
            /\ db_sdns'.exists = db_sdns.exists
            /\ db_sdns.exists =>
                 /\ db_sdns' = Failed(v_doc, v_step, v_exc')
                 /\ db_sdns'.operationalState = "ERROR"
                 /\ db_sdns'.RO = v_doc.RO
            /\ ro_sdn' = ro_sdn]_vars
    /\ [][(v_kind' = "vim_delete" /\ db_vim_accounts.exists /\ ~db_vim_accounts'.exists)
            => /\ v_exc' = NoExc /\ v_pc' = "done"
               /\ v_pc = "RO.delete" => v_doc.RO \notin ro_vim']_vars
    /\ [][(v_kind' = "sdn_delete" /\ db_sdns.exists /\ ~db_sdns'.exists)
            => /\ v_exc' = NoExc /\ v_pc' = "done"
               /\ v_pc = "RO.delete" => v_doc.RO \notin ro_sdn']_vars

\* a vim_delete ended on a 409 of RO.delete: the row is there, in ERROR, and RO
\* still holds the vim
C32_Witness ==
    /\ v_kind = "vim_delete"
    /\ v_pc = "done"
    /\ v_exc.type = "ROClientException"
    /\ v_exc.code = "409"
    /\ v_step = "Deleting vim from RO"
    /\ db_vim_accounts.exists
    /\ db_vim_accounts.operationalState = "ERROR"
    /\ db_vim_accounts.RO \in ro_vim

\* ------------------------------------------------------------------------
\* C39: an edit of a record that was never deployed at RO
\* ------------------------------------------------------------------------
\* the stored document has no _admin, or no _admin.deployed, or no RO id in it
NoROInfo(doc) == doc.exists /\ (~doc.admin \/ ~doc.deployed \/ doc.RO = NoUuid)

\* the whole run of an edit on such a document: it is over at the first step
EditOfUndeployed(db, after, unbound) ==
    /\ v_pc' = "done"
    /\ v_called' = {}
    /\ ROSame
    /\ v_exc' = UnboundExc(unbound)
    /\ after.exists
    /\ after.operationalState = "ENABLED" => db.operationalState = "ENABLED"
    /\ IF db.admin
       THEN /\ after.operationalState = "ERROR"
            /\ after = Failed(db, "Getting vim-id from db", v_exc')
                 \/ after = Failed(db, "Getting sdn from db", v_exc')
            /\ v_ret' = "returned"
       ELSE /\ after = db
            /\ v_ret' = "raised"

\* C39: vim_edit and sdn_edit on a record without _admin.deployed.RO call RO
\* for nothing and do not set operationalState to ENABLED; the workflow ends
\* on the read of the RO id it never assigned, and when the record has an
\* _admin section it is stored with operationalState ERROR.
C39_UndeployedEditFails ==
    /\ [][((\E c \in Contents : vim_edit_1(c)) /\ NoROInfo(db_vim_accounts))
            => EditOfUndeployed(db_vim_accounts, db_vim_accounts', "RO_vim_id")]_vars
    /\ [][((\E c \in Contents : sdn_edit_1(c)) /\ NoROInfo(db_sdns))
            => EditOfUndeployed(db_sdns, db_sdns', "RO_sdn_id")]_vars

\* a vim_edit of a record with _admin and no RO id has ended in ERROR
C39_Witness ==
    /\ v_kind = "vim_edit"
    /\ v_pc = "done"
    /\ v_called = {}
    /\ v_exc = UnboundExc("RO_vim_id")
    /\ db_vim_accounts.exists
    /\ db_vim_accounts.admin
    /\ db_vim_accounts.RO = NoUuid
    /\ db_vim_accounts.operationalState = "ERROR"
    /\ db_vim_accounts.detailed = <<"ERROR", "Getting vim-id from db", "RO_vim_id">>

\* ------------------------------------------------------------------------
\* C35: what a terminate command cancels
\* ------------------------------------------------------------------------
\* the task h runs a call of the VCA library for the NS id: DeployCharms,
\* RemoveCharms or ExecutePrimitive, not a workflow of this program
VcaTask(h, id) ==
    /\ tasks[h].topic = "ns"
    /\ tasks[h].ent = id
    /\ tasks[h].name \notin {"ns_instantiate", "ns_terminate", "ns_action"}

\* C35: when the dispatch loop handles ns terminate, cancel_tasks requests the
\* cancellation of every VCA task of that NS that is still in flight, so none
\* of them keeps running uncancelled.
C35_TerminateCancelsVca ==
    [][(bus_ns # NoRecord /\ IsCancelling(bus_ns) /\ ns_read)
       => \A h \in DOMAIN tasks :
            (VcaTask(h, bus_ns.id) /\ ~tasks[h].done) => tasks'[h].cancelReq]_vars

\* ------------------------------------------------------------------------
\* C36: the callbacks of the charms and the last write of ns_instantiate
\* ------------------------------------------------------------------------
\* the loop runs n2vc_callback: a status push of a charm, or the done callback
\* of a DeployCharms task
CallbackRuns ==
    \/ \E idx \in ActionIndexes, status \in VcaStatuses : n2vc_status(idx, status, "msg")
    \/ \E h \in DOMAIN tasks, idx \in ActionIndexes : n2vc_done(h, idx)

\* the nslcmops document of the instantiate that started the charms holds what
\* lines 982-993 or a later callback stored, not what the NBI created
FinalPersisted ==
    /\ cb.exists
    /\ Has(db_nslcmops, cb.id)
    /\ db_nslcmops[cb.id].detailed # NewOp("instantiate", FALSE).detailed

\* C36: n2vc_callback runs for the charms of an ns_instantiate only after that
\* workflow has made its last update of nsrs and nslcmops and returned: the
\* step that starts the DeployCharms tasks is also the step that stores
\* "configuring", no callback has run before it and none of the tasks has
\* ended in it, so the write never lands on a result of the callbacks.
C36_CallbacksAfterPersist ==
    /\ [][CallbackRuns =>
            /\ FinalPersisted
            /\ wf.kind = "ns_instantiate" => (wf.pc = "done" /\ wf.op = cb.id)]_vars
    /\ [][(ns_instantiate_login /\ Len(tasks') > Len(tasks)) =>
            /\ ~cb.exists
            /\ cb_out = NoOut
            /\ wf'.pc = "done"
            /\ \A h \in Started : ~tasks'[h].done /\ ~tasks'[h].cancelReq
            /\ db_nsrs.config \notin {"configured", "failed"}
            /\ db_nsrs'.config = "configuring"]_vars

\* a callback has stored its result after the workflow returned, and the
\* result stands
C36_Witness ==
    /\ wf.kind = "ns_instantiate"
    /\ wf.pc = "done"
    /\ cb.exists
    /\ cb_out # NoOut
    /\ db_nsrs.exists
    /\ db_nsrs.config = "configured"
    /\ \E h \in DOMAIN tasks : tasks[h].name = "create_charm:1" /\ tasks[h].done

\* ------------------------------------------------------------------------
\* C38: the process after the command "exit"
\* ------------------------------------------------------------------------
\* the dispatch loop has left its while loop: it reads and spawns nothing more,
\* and nothing takes a self-ping from the bus or resets the counter
ExitedLoopIsSilent ==
    [][rd_pc = "exit" =>
         /\ UNCHANGED <<rd_pc, rd_errors, rd_first, order_id, tasks,
                        lcm_ns_tasks, lcm_vim_tasks, lcm_sdn_tasks>>
         /\ bus_pings' >= bus_pings
         /\ pings_not_received' >= pings_not_received]_vars

\* C38 as stated: after "exit" pings_not_received eventually exceeds 10 and the
\* prober raises its LcmException.
C38_Original ==
    (rd_pc = "exit") ~> (pg_pc = "broken" /\ pings_not_received > PingLimit)

\* C38 (amended): after the dispatch loop has consumed "exit" it spawns and
\* consumes nothing more while the prober keeps running, and the process
\* always ends through an exception of the prober: the LcmException of the
\* counter, raised only once pings_not_received exceeds 10, or, when aiowrite
\* fails, the exception of aiowrite that the prober re-raises.
C38_ExitEndsInProberError ==
    /\ ExitedLoopIsSilent
    /\ [](pg_pc = "broken" => pings_not_received > PingLimit)
    /\ []((rd_pc = "exit" /\ proc = "dead") => pg_pc \in {"broken", "raised"})
    /\ (rd_pc = "exit") ~> (proc = "dead" /\ pg_pc \in {"broken", "raised"})

\* the loop has left on "exit" and the prober has raised on the counter
C38_Witness ==
    /\ rd_pc = "exit"
    /\ proc = "dead"
    /\ pg_pc = "broken"
    /\ pings_not_received = PingLimit + 1
    /\ order_id > 1

====
